---- MODULE Spec2Model ----
(***************************************************************************)
(* Model of the section-dependency scheduler, the literature-search        *)
(* fan-out and the deduplication/reconciliation node of ritivel/cline.     *)
(*                                                                         *)
(*   SpecSort   topological_sort_sections (multi_agent_section_writer.py)  *)
(*   Spec       workers fan-out followed by deduplication_node             *)
(*              (multi_agent_research.py)                                  *)
(*   SpecDedup  deduplication_node alone, over bounded section_results     *)
(*   SpecWrite  write_all_sections and the section writing graph           *)
(*   SpecRetry  the retry loops around the generation and HTTP calls       *)
(*   SpecSortAny  the sort over an arbitrary prerequisite mapping          *)
(*   SpecExtract  extract_papers_from_result over bounded agent results    *)
(*                                                                         *)
(* Section ids of the writer are modelled as tuples of naturals            *)
(* ("2.5.6.1" is <<2,5,6,1>>); every component of the declared vocabulary  *)
(* is a single digit and '.' sorts before every digit, so Python's string  *)
(* order on the ids is the lexicographic order on the tuples with a proper *)
(* prefix first.  Strings whose characters the code inspects (title, url)  *)
(* are tuples of one-character strings.                                    *)
(***************************************************************************)
EXTENDS Integers, Sequences, FiniteSets, TLC

VARIABLES
    \* ---- topological_sort_sections ----
    sections,        \* the input list
    in_degree,       \* section -> number of unmet in-input prerequisites
    queue,           \* the ready list
    result,          \* the emitted order
    sort_pc,         \* "start" | "loop" | "done"
    dependencies,    \* the mapping get_section_dependencies() returned
    \* ---- process_workers_parallel ----
    section_list,    \* list(sections.items()): the ids in outline order
    task_pc,         \* per task: position in process_with_semaphore
    attempt,         \* per task: the retry loop's attempt
    delay,           \* per task: the sleep in progress, in half seconds
    agent_result,    \* per task: what worker.ainvoke returned
    task_return,     \* per task: the tuple process_section returned
    semaphore,       \* asyncio.Semaphore._value
    completed,       \* task indices in the order they finished
    results,         \* processed_results of run_all_sections
    section_files,   \* per-section result files written so far
    section_results, \* state["section_results"]
    phase,           \* "workers" | "deduplication" | "agent_returned" | "end"
    \* ---- deduplication_node ----
    dedup_response,  \* what dedup_agent.invoke returned or raised
    final_json,      \* the structure written to the combined file
    \* ---- write_all_sections and the section writing graph ----
    enable_refinement,    \* the flag the graph was built with
    sorted_sections,      \* the order the batch loop walks
    batch_idx,            \* 1-based position of the batch loop
    node,                 \* the graph node about to run, "END", "raised"
    cross_references,     \* len(state["cross_references"])
    related_sections_tex, \* ids whose written content planning loaded
    output_tex,           \* state["output_tex"]
    quality_report,       \* state["quality_report"]
    revision_count,       \* state["revision_count"]
    batch_results,        \* results of write_all_sections
    tex_files,            \* ids whose .tex file save_tex_file has written
    visited,              \* nodes the current graph run has entered
    section_guidance,     \* state["section_guidance"]: "" or the file's text
    \* ---- the retry loops ----
    retry_site,      \* which loop: process_section, writing_node, http
    retry_pc,        \* "call" | "sleep" | "returned" | "raised"
    retry_attempt,   \* the loop variable `attempt`
    retry_delay,     \* the sleep in progress, in half seconds
    calls,           \* number of calls made so far
    last_error,      \* what the latest call raised
    raised_error,    \* what the loop raised to its caller
    \* ---- extract_papers_from_result ----
    extract_input,   \* the agent result handed to the function
    extract_output,  \* what it returned
    \* ---- PubMedSearcher: the rate gate and the request semaphore ----
    clock,               \* time.time(), in hundredths of a second
    last_request_time,   \* PubMedSearcher._last_request_time
    rate_limit_lock,     \* the thread holding _rate_limit_lock, 0 if free
    request_semaphore,   \* free slots of _request_semaphore
    http_pc,             \* thread -> its position in _make_request_with_retry
    http_attempt,        \* thread -> the loop variable `attempt`
    wake_time,           \* thread -> when its time.sleep in the gate ends
    stamps,              \* the timestamps the gate recorded, in order
    request_start,       \* thread -> when it called requests.get, 0 if not
                         \* in flight
    \* ---- parse_regulation_file ----
    outline,                \* content.split('\n')
    line_idx,               \* index of the line the for loop is at
    parsed_sections,        \* the dict `sections`, in insertion order
    current_section_id,     \* <<>> stands for None
    current_section_title,
    current_description,
    parse_pc,               \* "idle" | "loop" | "done"
    \* ---- main of the section writer ----
    cli_mode,        \* "none" | "batch" | "single"
    papers_exists,   \* whether the papers JSON file can be opened
    exit_status,     \* the process exit status, NotExited while running
    main_tex,        \* main.tex: whether written, and the fragments it inputs
    \* ---- PubMedSearcher.search_papers and the search tool ----
    search_pc,       \* "idle" | "esearch" | "efetch" | "returned" |
                     \* "tool_returned"
    pmids,           \* len(pmids) of the esearch response
    search_caught,   \* the except clause of search_papers that ran
    search_return,   \* what search_papers returned or raised
    tool_return      \* what search_research_papers returned

sort_vars   == <<sections, in_degree, queue, result, sort_pc, dependencies>>
worker_vars == <<section_list, task_pc, attempt, delay, agent_result,
                 task_return, semaphore, completed, results,
                 section_files>>
dedup_vars  == <<section_results, phase, dedup_response, final_json>>
writer_vars == <<enable_refinement, sorted_sections, batch_idx, node,
                 cross_references, related_sections_tex, output_tex,
                 quality_report, revision_count, batch_results, tex_files,
                 visited, section_guidance>>
retry_vars  == <<retry_site, retry_pc, retry_attempt, retry_delay, calls,
                 last_error, raised_error>>
extract_vars == <<extract_input, extract_output>>
gate_vars   == <<clock, last_request_time, rate_limit_lock,
                 request_semaphore, http_pc, http_attempt, wake_time,
                 stamps, request_start>>
parse_vars  == <<outline, line_idx, parsed_sections, current_section_id,
                 current_section_title, current_description, parse_pc>>
cli_vars    == <<cli_mode, papers_exists, exit_status, main_tex>>
search_vars == <<search_pc, pmids, search_caught, search_return,
                 tool_return>>
other_vars  == <<gate_vars, parse_vars, cli_vars, search_vars>>
vars        == <<sort_vars, worker_vars, dedup_vars, writer_vars, retry_vars,
                 extract_vars, other_vars>>

\* ------------------------------------------------------------------------
\* Generic helpers
\* ------------------------------------------------------------------------
Range(s) == {s[i] : i \in 1..Len(s)}

RECURSIVE SumSeq(_)
SumSeq(s) == IF s = <<>> THEN 0 ELSE Head(s) + SumSeq(Tail(s))

\* All sequences over S of length at most n
RECURSIVE SeqsUpTo(_, _)
SeqsUpTo(S, n) ==
    IF n = 0 THEN {<<>>} ELSE SeqsUpTo(S, n - 1) \cup [1..n -> S]

\* All duplicate-free sequences over S of length at most n
InjSeqs(S, n) ==
    {s \in SeqsUpTo(S, n) : \A i, j \in 1..Len(s) : i # j => s[i] # s[j]}

\* ------------------------------------------------------------------------
\* Bounds
\* ------------------------------------------------------------------------
MaxSortInput == 3      \* longest input list given to the sort

\* ========================================================================
\* topological_sort_sections
\* ========================================================================

\* The ids declared in get_section_dependencies
DeclaredIds ==
    { <<2,5>>, <<2,5,1>>, <<2,5,2>>, <<2,5,3>>, <<2,5,4>>, <<2,5,5>>,
      <<2,5,6>>, <<2,5,6,1>>, <<2,5,6,1,1>>, <<2,5,6,1,2>>, <<2,5,6,2>>,
      <<2,5,6,3>>, <<2,5,6,4>>, <<2,5,7>> }

\* An id the table does not declare (dependencies.get(section, []) covers it)
UndeclaredId == <<2,5,8>>

SortIds == DeclaredIds \cup {UndeclaredId}

get_section_dependencies(id) ==
    CASE id = <<2,5>>       -> {}
      [] id = <<2,5,1>>     -> {}
      [] id = <<2,5,2>>     -> {<<2,5,1>>}
      [] id = <<2,5,3>>     -> {<<2,5,2>>}
      [] id = <<2,5,4>>     -> {<<2,5,3>>}
      [] id = <<2,5,5>>     -> {<<2,5,3>>, <<2,5,4>>}
      [] id = <<2,5,6>>     -> {<<2,5,4>>, <<2,5,5>>}
      [] id = <<2,5,6,1>>   -> {<<2,5,1>>, <<2,5,6>>}
      [] id = <<2,5,6,1,1>> -> {<<2,5,6,1>>}
      [] id = <<2,5,6,1,2>> -> {<<2,5,6,1>>}
      [] id = <<2,5,6,2>>   -> {<<2,5,4>>, <<2,5,6>>}
      [] id = <<2,5,6,3>>   -> {<<2,5,5>>, <<2,5,6>>}
      [] id = <<2,5,6,4>>   -> {<<2,5,4>>, <<2,5,5>>, <<2,5,6,2>>,
                                <<2,5,6,3>>, <<2,5,6>>}
      [] id = <<2,5,7>>     -> {}
      [] OTHER              -> {}

\* dependencies = get_section_dependencies(): the table as a mapping
DependencyTable == [id \in DeclaredIds |-> get_section_dependencies(id)]

\* dict.get(key, default)
Get(d, key, default) == IF key \in DOMAIN d THEN d[key] ELSE default

\* graph = {section: set(dependencies.get(section, [])) for section in sections}
graph(s) == Get(dependencies, s, {})

\* Python's str order on the ids
RECURSIVE StrLess(_, _)
StrLess(a, b) ==
    IF a = <<>> THEN b # <<>>
    ELSE IF b = <<>> THEN FALSE
    ELSE IF Head(a) # Head(b) THEN Head(a) < Head(b)
    ELSE StrLess(Tail(a), Tail(b))

\* list.sort() on a list of ids (stable insertion sort)
RECURSIVE InsertSorted(_, _)
InsertSorted(x, s) ==
    IF s = <<>> THEN <<x>>
    ELSE IF StrLess(x, Head(s)) THEN <<x>> \o s
    ELSE <<Head(s)>> \o InsertSorted(x, Tail(s))

RECURSIVE SortIdsList(_)
SortIdsList_unsorted(s) == s
SortIdsList(s) ==
    IF s = <<>> THEN <<>>
    ELSE InsertSorted(s[Len(s)], SortIdsList(SubSeq(s, 1, Len(s) - 1)))

\* in_degree after the two nested loops of lines 357-361: one increment per
\* occurrence of the section in the list and per prerequisite in the input
InitialInDegree_unrestricted(secs) ==
    [s \in Range(secs) |->
        Cardinality({i \in 1..Len(secs) : secs[i] = s})
        * Cardinality(graph(s))]

InitialInDegree(secs) ==
    [s \in Range(secs) |->
        Cardinality({i \in 1..Len(secs) : secs[i] = s})
        * Cardinality({d \in graph(s) : d \in Range(secs)})]

\* queue = [section for section in sections if in_degree[section] == 0]
InitialQueue(secs, deg) == SelectSeq(secs, LAMBDA s : deg[s] = 0)

\* The for loop of lines 373-377 after `section` was popped: walks the input
\* list, decrements the dependents and appends those that reach zero
RECURSIVE ReduceInDegree(_, _, _, _)
ReduceInDegree(section, rest, deg, q) ==
    IF rest = <<>> THEN [deg |-> deg, q |-> q]
    ELSE LET other == Head(rest)
         IN  IF section \in graph(other)
             THEN LET d2 == [deg EXCEPT ![other] = @ - 1]
                  IN  ReduceInDegree(section, Tail(rest), d2,
                          IF d2[other] = 0 THEN Append(q, other) ELSE q)
             ELSE ReduceInDegree(section, Tail(rest), deg, q)

SortStart ==
    /\ sort_pc = "start"
    /\ in_degree' = InitialInDegree(sections)
    /\ queue' = InitialQueue(sections, InitialInDegree(sections))
    /\ result' = <<>>
    /\ sort_pc' = "loop"
    /\ UNCHANGED <<sections, dependencies, worker_vars, dedup_vars,
                   writer_vars, retry_vars, extract_vars,
                   other_vars>>

\* One iteration of `while queue:`
SortLoop ==
    /\ sort_pc = "loop"
    /\ queue # <<>>
    /\ LET sorted  == SortIdsList(queue)
           section == Head(sorted)
           r       == ReduceInDegree(section, sections, in_degree, Tail(sorted))
       IN  /\ result' = Append(result, section)
           /\ in_degree' = r.deg
           /\ queue' = r.q
    /\ UNCHANGED <<sections, sort_pc, dependencies, worker_vars, dedup_vars,
                   writer_vars, retry_vars, extract_vars,
                   other_vars>>

\* remaining = [s for s in sections if s not in result]
Remaining_sorted(secs, res) ==
    SortIdsList(SelectSeq(secs, LAMBDA s : s \notin Range(res)))
Remaining(secs, res) == SelectSeq(secs, LAMBDA s : s \notin Range(res))

\* Loop exit, the circular-dependency check and the return
SortFinish ==
    /\ sort_pc = "loop"
    /\ queue = <<>>
    /\ result' = IF Len(result) # Len(sections)
                 THEN result \o Remaining(sections, result)
                 ELSE result
    /\ sort_pc' = "done"
    /\ UNCHANGED <<sections, in_degree, queue, dependencies, worker_vars,
                   dedup_vars, writer_vars, retry_vars, extract_vars,
                   other_vars>>

\* ========================================================================
\* Strings and papers
\* ========================================================================
Whitespace == {" "}

\* str.strip()
RECURSIVE LStrip(_)
LStrip(s) ==
    IF s # <<>> /\ Head(s) \in Whitespace THEN LStrip(Tail(s)) ELSE s

RECURSIVE RStrip(_)
RStrip(s) ==
    IF s # <<>> /\ s[Len(s)] \in Whitespace
    THEN RStrip(SubSeq(s, 1, Len(s) - 1)) ELSE s

Strip(s) == RStrip(LStrip(s))

\* str.startswith(prefix)
StartsWith(s, prefix) ==
    /\ Len(s) >= Len(prefix)
    /\ SubSeq(s, 1, Len(prefix)) = prefix

Http == <<"h", "t", "t", "p">>

\* The sentinels ["...", ".", "-", ""]
Placeholders == { <<".", ".", ".">>, <<".">>, <<"-">>, <<>> }

\* The keys of a paper whose value is a str
StrKeys(paper) == DOMAIN paper \ {"also_relevant_to"}

\* is_valid_paper, the same body in extract_papers_from_result and in
\* save_section_results
is_valid_paper(paper) ==
    LET title == Strip(Get(paper, "title", <<>>))
        url   == Strip(Get(paper, "url", <<>>))
    IN  /\ ~ (title = <<>> \/ title \in Placeholders)
        /\ ~ (url = <<>> \/ url \in Placeholders \/ ~ StartsWith(url, Http))

\* filter_valid_papers
filter_valid_papers(papers_list) == SelectSeq(papers_list, is_valid_paper)

\* has_placeholder_values
has_placeholder_values(papers_list) ==
    \E i \in 1..Len(papers_list) :
        \E k \in StrKeys(papers_list[i]) :
            Strip(papers_list[i][k]) \in Placeholders

\* has_real_data
has_real_data(papers_list) ==
    \E i \in 1..Len(papers_list) :
        \E k \in StrKeys(papers_list[i]) :
            /\ Strip(papers_list[i][k]) \notin Placeholders
            /\ Len(Strip(papers_list[i][k])) > 3

\* The loop of lines 832-844: keep the first paper of every url
RECURSIVE DedupByUrl(_, _)
DedupByUrl_keep_all(papers_list, seen_urls) == papers_list
DedupByUrl(papers_list, seen_urls) ==
    IF papers_list = <<>> THEN <<>>
    ELSE LET paper == Head(papers_list)
             url   == Get(paper, "url", <<>>)
         IN  IF url # <<>> /\ url \notin seen_urls
             THEN <<paper>> \o DedupByUrl(Tail(papers_list),
                                          seen_urls \cup {url})
             ELSE IF url = <<>>
                     /\ Strip(Get(paper, "title", <<>>)) \notin Placeholders
             THEN <<paper>> \o DedupByUrl(Tail(papers_list), seen_urls)
             ELSE DedupByUrl(Tail(papers_list), seen_urls)

\* An agent result is abstracted to what the parsing of its messages
\* yields: tool_papers (the "papers" lists of the tool messages, lines
\* 660-672), assistant_papers (the array the text strategies of lines 680-750
\* parse from the assistant message) and mentions (the message content
\* contains 'paper' or 'research', line 1093).
\* Candidate selection, validity filter and url deduplication of
\* extract_papers_from_result, lines 811-846
SelectCandidate_tool_first(r) ==
    LET tool_papers      == r.tool_papers
        assistant_papers == r.assistant_papers
    IN  IF tool_papers # <<>> /\ has_real_data(tool_papers)
        THEN tool_papers
        ELSE IF assistant_papers # <<>>
                /\ ~ has_placeholder_values(assistant_papers)
        THEN assistant_papers
        ELSE IF assistant_papers # <<>>
        THEN filter_valid_papers(assistant_papers)
        ELSE tool_papers
SelectCandidate(r) ==
    LET tool_papers      == r.tool_papers
        assistant_papers == r.assistant_papers
    IN  IF assistant_papers # <<>>
           /\ ~ has_placeholder_values(assistant_papers)
        THEN assistant_papers
        ELSE IF tool_papers # <<>> /\ has_real_data(tool_papers)
        THEN tool_papers
        ELSE IF assistant_papers # <<>>
        THEN filter_valid_papers(assistant_papers)
        ELSE tool_papers

extract_papers_from_result_unfiltered(r) ==
    DedupByUrl(SelectCandidate(r), {})
extract_papers_from_result(r) ==
    DedupByUrl(filter_valid_papers(SelectCandidate(r)), {})

\* The "additional extraction" of lines 1081-1117: when nothing was
\* extracted, the array literal matched in the message content is taken as
\* the paper list as it is
PatternMatchingFallback(r, papers) ==
    IF Len(papers) = 0 /\ r.mentions /\ Len(r.assistant_papers) > 0
    THEN r.assistant_papers
    ELSE papers

\* save_section_results: what is written as "papers" to the section file
save_section_results(papers) == SelectSeq(papers, is_valid_paper)

\* ------------------------------------------------------------------------
\* The strings and papers the bounded inputs are built from
\* ------------------------------------------------------------------------
TitleStudy == <<"S", "t", "u", "d", "y">>
TitleTrial == <<" ", "T", "r", "i", "a", "l">>
TitleDots  == <<".", ".", ".">>
UrlA       == <<"h", "t", "t", "p", "s", ":", "/", "/", "a">>
UrlB       == <<"h", "t", "t", "p", ":", "/", "/", "b">>
UrlDots    == <<".", ".", ".">>
UrlFtp     == <<"f", "t", "p", ":", "/", "/", "c">>
DescX      == <<"x">>
DescY      == <<"y">>

Paper(t, u, d) == [title |-> t, url |-> u, description |-> d]

PaperA      == Paper(TitleStudy, UrlA, DescX)
PaperA2     == Paper(TitleStudy, UrlA, DescY)    \* same url as PaperA
PaperB      == Paper(TitleTrial, UrlB, DescX)
PaperDots   == Paper(TitleDots, UrlDots, DescX)  \* the prompt's placeholder
PaperFtp    == Paper(TitleStudy, UrlFtp, DescX)  \* no http scheme

\* What worker.ainvoke can return
AgentResults ==
    { [tool_papers |-> <<>>, assistant_papers |-> <<PaperA, PaperB>>,
       mentions |-> TRUE],
      [tool_papers |-> <<PaperA, PaperA2, PaperFtp>>,
       assistant_papers |-> <<>>, mentions |-> FALSE],
      [tool_papers |-> <<>>, assistant_papers |-> <<PaperDots>>,
       mentions |-> TRUE],
      [tool_papers |-> <<>>, assistant_papers |-> <<>>, mentions |-> FALSE] }


\* ========================================================================
\* process_workers_parallel: the literature-search fan-out
\* ========================================================================
NumSections == 3       \* sections in the parsed outline (bound)

\* Section ids of the outline, in outline order
OutlineIds == [i \in 1..NumSections |-> <<5, 3, i>>]

Tasks == 1..Len(section_list)

max_concurrent == 2
max_retries    == 5
base_delay     == 2    \* seconds

\* The failures worker.ainvoke can raise, as the classification of lines
\* 993-1020 sees them: an openai RateLimitError (or a type named so), a
\* message carrying a rate-limit marker with or without "N seconds", or
\* anything else
HintSeconds == 3
Errors ==
    { [kind |-> "RateLimitError", has_hint |-> FALSE, seconds |-> 0],
      [kind |-> "RateLimitError", has_hint |-> TRUE,  seconds |-> HintSeconds],
      [kind |-> "message_429",    has_hint |-> FALSE, seconds |-> 0],
      [kind |-> "message_429",    has_hint |-> TRUE,  seconds |-> HintSeconds],
      [kind |-> "other",          has_hint |-> FALSE, seconds |-> 0] }

is_rate_limit_any(e) == TRUE
is_rate_limit(e) == e.kind \in {"RateLimitError", "message_429"}

\* wait_time: float(match) + 1 when the message names seconds, else None (0)
wait_time(e) ==
    IF e.kind = "message_429" /\ e.has_hint THEN e.seconds + 1 ELSE 0

RECURSIVE Pow2(_)
Pow2(n) == IF n = 0 THEN 1 ELSE 2 * Pow2(n - 1)

\* The sleep before the next attempt (lines 1022-1027), in half seconds
BackoffDelay_exponential(e, att) == 2 * base_delay * Pow2(att)
BackoffDelay(e, att) ==
    IF wait_time(e) # 0 THEN 2 * wait_time(e)
    ELSE 2 * base_delay * Pow2(att)

\* asyncio.sleep(0.5 * (section_idx - 1) % max_concurrent), in half seconds:
\* Python evaluates (0.5 * (section_idx - 1)) % max_concurrent
StartDelay(section_idx) == (section_idx - 1) % (2 * max_concurrent)

\* Semaphore.acquire proceeds without waiting when _value > 0
CanAcquire_nonneg(value) == value >= 0
CanAcquire(value) == value > 0

\* process_section's body after a successful ainvoke (lines 1036-1138)
ProcessResult(r) ==
    PatternMatchingFallback(r, extract_papers_from_result(r))

\* A task leaves process_with_semaphore: its return value is recorded, its
\* locals (attempt, the sleep) are gone and the semaphore is released; no
\* other task is touched
FinishTask_cancel_siblings(i, ret) ==
    /\ task_return' = [j \in Tasks |->
                         IF j = i THEN ret
                         ELSE IF task_pc[j] = "done" THEN task_return[j]
                         ELSE <<section_list[j], <<>>>>]
    /\ task_pc' = [j \in Tasks |-> "done"]
    /\ attempt' = [j \in Tasks |-> 0]
    /\ delay' = [j \in Tasks |-> 0]
    /\ semaphore' = max_concurrent
    /\ completed' = completed \o
                    <<i>> \o SelectSeq([j \in Tasks |-> j],
                                 LAMBDA j : j # i /\ task_pc[j] # "done")
FinishTask(i, ret) ==
    /\ task_return' = [task_return EXCEPT ![i] = ret]
    /\ task_pc' = [task_pc EXCEPT ![i] = "done"]
    /\ attempt' = [attempt EXCEPT ![i] = 0]
    /\ delay' = [delay EXCEPT ![i] = 0]
    /\ semaphore' = semaphore + 1
    /\ completed' = Append(completed, i)

\* `async with semaphore:` entered
Acquire(i) ==
    /\ phase = "workers"
    /\ task_pc[i] = "pending"
    /\ CanAcquire(semaphore)
    /\ semaphore' = semaphore - 1
    /\ task_pc' = [task_pc EXCEPT ![i] = "start_delay"]
    /\ delay' = [delay EXCEPT ![i] = StartDelay(i)]
    /\ UNCHANGED <<section_list, attempt, agent_result, task_return,
                   completed, results, section_files, sort_vars, dedup_vars,
                   writer_vars, retry_vars, extract_vars,
                   other_vars>>

\* The staggering sleep ends; process_section starts its first attempt
StartSleepDone(i) ==
    /\ phase = "workers"
    /\ task_pc[i] = "start_delay"
    /\ task_pc' = [task_pc EXCEPT ![i] = "invoking"]
    /\ attempt' = [attempt EXCEPT ![i] = 0]
    /\ delay' = [delay EXCEPT ![i] = 0]
    /\ UNCHANGED <<section_list, agent_result, task_return, semaphore,
                   completed, results, section_files, sort_vars, dedup_vars,
                   writer_vars, retry_vars, extract_vars,
                   other_vars>>

\* worker.ainvoke returns: extraction, the pattern-matching fallback,
\* save_section_results and `return (section_id, papers)`
InvokeReturns(i, r) ==
    /\ phase = "workers"
    /\ task_pc[i] = "invoking"
    /\ agent_result' = [agent_result EXCEPT ![i] = <<r>>]
    /\ LET papers == ProcessResult(r)
       IN  /\ section_files' = (section_list[i] :> save_section_results(papers))
                               @@ section_files
           /\ FinishTask(i, <<section_list[i], papers>>)
    /\ UNCHANGED <<section_list, results, sort_vars, dedup_vars,
                   writer_vars, retry_vars, extract_vars,
                   other_vars>>

\* worker.ainvoke raises a rate-limit error and attempts remain: back off
InvokeRaisesRetry(i, e) ==
    /\ phase = "workers"
    /\ task_pc[i] = "invoking"
    /\ is_rate_limit(e) /\ attempt[i] < max_retries - 1
    /\ task_pc' = [task_pc EXCEPT ![i] = "backoff"]
    /\ delay' = [delay EXCEPT ![i] = BackoffDelay(e, attempt[i])]
    /\ UNCHANGED <<section_list, attempt, agent_result, task_return,
                   semaphore, completed, results, section_files, sort_vars,
                   dedup_vars, writer_vars, retry_vars, extract_vars,
                   other_vars>>

\* worker.ainvoke raises and the error is re-raised (not a rate limit, or no
\* attempt left): the outer handler returns (section_id, [])
InvokeRaisesFail(i, e) ==
    /\ phase = "workers"
    /\ task_pc[i] = "invoking"
    /\ ~ (is_rate_limit(e) /\ attempt[i] < max_retries - 1)
    /\ FinishTask(i, <<section_list[i], <<>>>>)
    /\ UNCHANGED <<section_list, agent_result, results, section_files,
                   sort_vars, dedup_vars,
                   writer_vars, retry_vars, extract_vars,
                   other_vars>>

\* The backoff sleep ends: `continue` into the next attempt
BackoffDone_same_attempt(i) ==
    /\ phase = "workers"
    /\ task_pc[i] = "backoff"
    /\ task_pc' = [task_pc EXCEPT ![i] = "invoking"]
    /\ delay' = [delay EXCEPT ![i] = 0]
    /\ UNCHANGED <<section_list, attempt, agent_result, task_return,
                   semaphore, completed, results, section_files, sort_vars,
                   dedup_vars, writer_vars, retry_vars, extract_vars,
                   other_vars>>
BackoffDone(i) ==
    /\ phase = "workers"
    /\ task_pc[i] = "backoff"
    /\ task_pc' = [task_pc EXCEPT ![i] = "invoking"]
    /\ attempt' = [attempt EXCEPT ![i] = @ + 1]
    /\ delay' = [delay EXCEPT ![i] = 0]
    /\ UNCHANGED <<section_list, agent_result, task_return, semaphore,
                   completed, results, section_files, sort_vars, dedup_vars,
                   writer_vars, retry_vars, extract_vars,
                   other_vars>>

\* asyncio.gather: the i-th result is the i-th task's return value
GatherResults_completion_order(returns, done_order) ==
    [k \in 1..Len(done_order) |-> returns[done_order[k]]]
GatherResults(returns, done_order) ==
    [i \in 1..Len(returns) |-> returns[i]]

\* for section_id, papers in results: section_results[section_id] = papers
RECURSIVE UpdateSectionResults(_, _)
UpdateSectionResults(sr, res) ==
    IF res = <<>> THEN sr
    ELSE UpdateSectionResults((Head(res)[1] :> Head(res)[2]) @@ sr, Tail(res))

\* gather returns, processed_results is built and section_results updated;
\* the graph moves on to the deduplication node
Gather ==
    /\ phase = "workers"
    /\ \A i \in Tasks : task_pc[i] = "done"
    /\ results' = GatherResults(task_return, completed)
    /\ section_results' = UpdateSectionResults(section_results, results')
    /\ phase' = "deduplication"
    /\ UNCHANGED <<section_list, task_pc, attempt, delay, agent_result,
                   task_return, semaphore, completed, section_files,
                   sort_vars, dedup_response, final_json,
                   writer_vars, retry_vars, extract_vars,
                   other_vars>>


\* ========================================================================
\* deduplication_node
\* ========================================================================
MaxPapers   == 3       \* longest per-section paper list given to the node
MaxRemovals == 2       \* longest "removals" list of one section

DigitChars == <<"0", "1", "2", "3", "4", "5", "6", "7", "8", "9">>

\* int(paper_idx) on a one-character JSON key: the digit's value, or a
\* ValueError (ok = FALSE)
ParseInt(key) ==
    IF Len(key) = 1 /\ \E d \in 1..10 : DigitChars[d] = key[1]
    THEN [ok |-> TRUE,
          val |-> (CHOOSE d \in 1..10 : DigitChars[d] = key[1]) - 1]
    ELSE [ok |-> FALSE, val |-> 0]

\* sorted(indices_to_remove, reverse=True)
RECURSIVE SortedAscending(_)
SortedAscending(S) ==
    IF S = {} THEN <<>>
    ELSE LET m == CHOOSE x \in S : \A y \in S : x <= y
         IN  <<m>> \o SortedAscending(S \ {m})

RECURSIVE SortedDescending(_)
SortedDescending(S) ==
    IF S = {} THEN <<>>
    ELSE LET m == CHOOSE x \in S : \A y \in S : y <= x
         IN  <<m>> \o SortedDescending(S \ {m})

\* list.pop(idx) for 0 <= idx < len (idx is 0-based)
Pop(lst, idx) == SubSeq(lst, 1, idx) \o SubSeq(lst, idx + 2, Len(lst))

\* The removal loop of lines 550-554 over the sorted indices; papers_removed
\* and duplicates_found are incremented together, once per pop
RECURSIVE RemoveLoop_count_all(_, _, _)
RemoveLoop_count_all(papers, idxs, removed) ==
    IF idxs = <<>> THEN [papers |-> papers, removed |-> removed]
    ELSE LET idx == Head(idxs)
         IN  IF 0 <= idx /\ idx < Len(papers)
             THEN RemoveLoop_count_all(Pop(papers, idx), Tail(idxs),
                                       removed + 1)
             ELSE RemoveLoop_count_all(papers, Tail(idxs), removed + 1)

RECURSIVE RemoveLoop(_, _, _)
RemoveLoop(papers, idxs, removed) ==
    IF idxs = <<>> THEN [papers |-> papers, removed |-> removed]
    ELSE LET idx == Head(idxs)
         IN  IF 0 <= idx /\ idx < Len(papers)
             THEN RemoveLoop(Pop(papers, idx), Tail(idxs), removed + 1)
             ELSE RemoveLoop(papers, Tail(idxs), removed)

\* indices_to_remove = set(removals.get(section_id, [])) and the loop over
\* it in descending order
RemoveIndices_ascending(papers, removal_list) ==
    RemoveLoop(papers, SortedAscending(Range(removal_list)), 0)
RemoveIndices(papers, removal_list) ==
    RemoveLoop(papers, SortedDescending(Range(removal_list)), 0)

\* removals.get(section_id, [])
RemovalsFor_default_first(removals, section_id) ==
    Get(removals, section_id, <<0>>)
RemovalsFor(removals, section_id) == Get(removals, section_id, <<>>)

\* also_relevant.get(section_id, {}), as the list of its (key, value) items
AlsoRelevantFor(also_relevant, section_id) ==
    Get(also_relevant, section_id, <<>>)

\* papers[i]["also_relevant_to"] created when absent, then extended
Annotate(paper, other_sections) ==
    [k \in DOMAIN paper \cup {"also_relevant_to"} |->
        IF k = "also_relevant_to"
        THEN Get(paper, "also_relevant_to", <<>>) \o other_sections
        ELSE paper[k]]

\* `papers` is a shallow copy of the section's list: its elements are the
\* dict objects of original_sections_data.  objs is that section's objects
\* by original position (1-based), papers the list of positions still in the
\* copy.  The loop of lines 557-563 over the items of section_also_relevant:
\* an item whose key int() rejects raises out of the loop.
RECURSIVE AnnotateLoop(_, _, _)
AnnotateLoop(objs, papers, items) ==
    IF items = <<>> THEN [objs |-> objs, raised |-> FALSE]
    ELSE LET paper_idx     == Head(items)[1]
             other_sections == Head(items)[2]
             parsed        == ParseInt(paper_idx)
         IN  IF ~ parsed.ok THEN [objs |-> objs, raised |-> TRUE]
             ELSE IF 0 <= parsed.val /\ parsed.val < Len(papers)
             THEN AnnotateLoop(
                      [objs EXCEPT ![papers[parsed.val + 1]] =
                                       Annotate(@, other_sections)],
                      papers, Tail(items))
             ELSE AnnotateLoop(objs, papers, Tail(items))

\* One iteration of the loop over original_sections_data (lines 546-570)
ApplySection(objs, removal_list, items) ==
    LET copy == [i \in 1..Len(objs) |-> i]
        rem  == RemoveIndices(copy, removal_list)
        ann  == AnnotateLoop(objs, rem.papers, items)
    IN  [objs |-> ann.objs, papers |-> rem.papers,
         removed |-> rem.removed, raised |-> ann.raised]

\* The loop over original_sections_data, in the order of state["sections"].
\* acc.objs: the dict objects of every section; acc.final: final_sections
\* so far, as positions; acc.removed: papers_removed; acc.raised: an
\* exception left the loop.
RECURSIVE ApplyLoop(_, _, _)
ApplyLoop(ids, instr, acc) ==
    IF ids = <<>> \/ acc.raised THEN acc
    ELSE LET sid == Head(ids)
             r   == ApplySection(acc.objs[sid],
                                 RemovalsFor(instr.removals, sid),
                                 AlsoRelevantFor(instr.also_relevant, sid))
         IN  ApplyLoop(Tail(ids), instr,
                 [objs    |-> [acc.objs EXCEPT ![sid] = r.objs],
                  final   |-> (sid :> r.papers) @@ acc.final,
                  removed |-> acc.removed + r.removed,
                  raised  |-> r.raised])

EmptyMap == [x \in {} |-> <<>>]

\* removals_data after the response was searched for a JSON object (lines
\* 520-544): None when nothing parses, which the node treats as an
\* instruction with no removals and no also_relevant
ParsedInstruction(response) ==
    IF response.kind = "instruction"
    THEN [removals |-> response.removals,
          also_relevant |-> response.also_relevant]
    ELSE [removals |-> EmptyMap, also_relevant |-> EmptyMap]

\* papers = section_results.get(section_id, []) for every outline section
OriginalPapers(ids, sr) ==
    [sid \in Range(ids) |-> Get(sr, sid, <<>>)]

SumOver(ids, f) == SumSeq([i \in 1..Len(ids) |-> f[ids[i]]])

\* final_json of the try block (lines 572-588)
FinalJson(ids, sr, acc) ==
    LET final_sections ==
            [sid \in Range(ids) |->
                [i \in 1..Len(acc.final[sid]) |->
                    acc.objs[sid][acc.final[sid][i]]]]
        counts == [sid \in Range(ids) |-> Len(final_sections[sid])]
    IN  [sections            |-> final_sections,
         total_unique_papers |-> SumOver(ids, counts),
         total_mentions      |-> SumOver(ids,
                                   [sid \in Range(ids) |->
                                       Len(OriginalPapers(ids, sr)[sid])]),
         papers_by_section   |-> counts,
         duplicates_found    |-> acc.removed,
         papers_removed      |-> acc.removed]

\* final_json of the except block (lines 623-637): original_sections_data,
\* whose dict objects are the ones the try block worked on
FallbackJson(ids, sr, objs) ==
    LET total_mentions ==
            SumOver(ids, [sid \in Range(ids) |->
                             Len(OriginalPapers(ids, sr)[sid])])
    IN  [sections            |-> objs,
         total_unique_papers |-> total_mentions,
         total_mentions      |-> total_mentions,
         papers_by_section   |-> [sid \in Range(ids) |->
                                     Len(OriginalPapers(ids, sr)[sid])],
         duplicates_found    |-> 0,
         papers_removed      |-> 0]

\* The whole node after the agent call
DeduplicationResult(ids, sr, response) ==
    IF response.kind = "raise"
    THEN FallbackJson(ids, sr, OriginalPapers(ids, sr))
    ELSE LET acc == ApplyLoop(ids, ParsedInstruction(response),
                        [objs    |-> OriginalPapers(ids, sr),
                         final   |-> EmptyMap,
                         removed |-> 0,
                         raised  |-> FALSE])
         IN  IF acc.raised THEN FallbackJson(ids, sr, acc.objs)
             ELSE FinalJson(ids, sr, acc)

NoResponse == [kind |-> "none", removals |-> EmptyMap,
               also_relevant |-> EmptyMap]

\* dedup_agent.invoke returns one of the given responses, or raises
DedupAgentRespond(responses) ==
    /\ phase = "deduplication"
    /\ \E response \in responses : dedup_response' = response
    /\ phase' = "agent_returned"
    /\ UNCHANGED <<section_results, final_json, worker_vars, sort_vars,
                   writer_vars, retry_vars, extract_vars,
                   other_vars>>

\* The rest of the node: parse, apply, build final_json and write the file
DedupApply ==
    /\ phase = "agent_returned"
    /\ final_json' = DeduplicationResult(section_list, section_results,
                                         dedup_response)
    /\ phase' = "end"
    /\ UNCHANGED <<section_results, dedup_response, worker_vars, sort_vars,
                   writer_vars, retry_vars, extract_vars,
                   other_vars>>


\* ------------------------------------------------------------------------
\* The classifier responses the bounded inputs are built from
\* ------------------------------------------------------------------------
\* A JSON object of the response keeps only the keys that were written
Prune(f) == [k \in {x \in DOMAIN f : f[x] # <<>>} |-> f[k]]

KeyOf(idx) == <<DigitChars[idx + 1]>>
NonIntKey  == <<"a">>

OneItem(keys, others) ==
    {<<>>} \cup {<< <<key, <<o>>>> >> : key \in keys, o \in others}

\* Every removals list up to MaxRemovals over the indices -1..MaxPapers, and
\* at most one also_relevant item
RichChoices(sid, ids) ==
    {[rem |-> r, also |-> a] :
        r \in SeqsUpTo(-1..MaxPapers, MaxRemovals),
        a \in OneItem({KeyOf(k) : k \in 0..MaxPapers - 1} \cup {NonIntKey},
                      Range(ids) \ {sid})}

PoorChoices(sid, ids) ==
    {[rem |-> r, also |-> a] :
        r \in {<<>>, <<0>>},
        a \in OneItem({KeyOf(0), NonIntKey},
                      {CHOOSE o \in Range(ids) : o # sid})}

TinyChoices(sid, ids) ==
    { [rem |-> <<>>, also |-> <<>>],
      [rem |-> <<0>>, also |-> <<>>],
      [rem |-> <<>>,
       also |-> << <<KeyOf(0), <<CHOOSE o \in Range(ids) : o # sid>>>> >>] }

Instruction(c) ==
    [kind          |-> "instruction",
     removals      |-> Prune([sid \in DOMAIN c |-> c[sid].rem]),
     also_relevant |-> Prune([sid \in DOMAIN c |-> c[sid].also])]

RaiseResponse       == [kind |-> "raise", removals |-> EmptyMap,
                        also_relevant |-> EmptyMap]
UnparseableResponse == [kind |-> "unparseable", removals |-> EmptyMap,
                        also_relevant |-> EmptyMap]

\* One section (rich) with a choice of RichChoices, the others of PoorChoices
RECURSIVE RichChoiceMaps(_, _, _)
RichChoiceMaps(rest, ids, rich) ==
    IF rest = <<>> THEN {EmptyMap}
    ELSE {(Head(rest) :> x) @@ c :
            x \in (IF Head(rest) = rich THEN RichChoices(Head(rest), ids)
                   ELSE PoorChoices(Head(rest), ids)),
            c \in RichChoiceMaps(Tail(rest), ids, rich)}

RECURSIVE TinyChoiceMaps(_, _)
TinyChoiceMaps(rest, ids) ==
    IF rest = <<>> THEN {EmptyMap}
    ELSE {(Head(rest) :> x) @@ c :
            x \in TinyChoices(Head(rest), ids),
            c \in TinyChoiceMaps(Tail(rest), ids)}

RichResponses(ids) ==
    {RaiseResponse, UnparseableResponse} \cup
    {Instruction(c) : c \in UNION {RichChoiceMaps(ids, ids, r) :
                                      r \in Range(ids)}}

TinyResponses(ids) ==
    {RaiseResponse, UnparseableResponse} \cup
    {Instruction(c) : c \in TinyChoiceMaps(ids, ids)}

\* The papers a section of the bounded deduplication input holds: paper k
\* of every section has the same title and url (a duplicate across
\* sections) and a description of its own section
DedupSectionIds == << <<5, 3, 1>>, <<5, 3, 2>> >>

DedupPaper(sid, k) ==
    [title       |-> <<"S", DigitChars[k + 1]>>,
     url         |-> Http \o <<":", "/", "/", DigitChars[k + 1]>>,
     description |-> <<DigitChars[sid[Len(sid)] + 1]>>]

DedupPapers(sid, n) == [k \in 1..n |-> DedupPaper(sid, k)]

\* ========================================================================
\* The section writing graph (multi_agent_section_writer.py)
\* ========================================================================
\* QUALITY_THRESHOLDS
min_length   == 500
max_length   == 50000
min_sections == 1
required_elements == {"\\section", "\\label"}

\* A LaTeX text is abstracted to what validate_latex_quality, writing_node
\* and refinement_node read from it: its stripped length, the matches its
\* regular expressions count and the substrings it tests for
TexGood ==
    [length |-> 1000, citation_count |-> 3, section_count |-> 1,
     contains |-> {"\\section", "\\label"},
     open_braces |-> 5, close_braces |-> 5,
     begin_count |-> 0, end_count |-> 0,
     unescaped |-> FALSE, promotional |-> FALSE]

\* "" : nothing was generated
TexEmpty ==
    [length |-> 0, citation_count |-> 0, section_count |-> 0,
     contains |-> {}, open_braces |-> 0, close_braces |-> 0,
     begin_count |-> 0, end_count |-> 0,
     unescaped |-> FALSE, promotional |-> FALSE]

\* A short section without citations
TexShort ==
    [TexGood EXCEPT !.length = 100, !.citation_count = 0,
                    !.open_braces = 2, !.close_braces = 2]

\* A brace left open
TexUnbalanced == [TexGood EXCEPT !.open_braces = 6]

\* Prose without any sectioning command
TexPlain ==
    [TexGood EXCEPT !.citation_count = 0, !.section_count = 0,
                    !.contains = {}, !.open_braces = 0, !.close_braces = 0]

\* Two citations and a promotional word under a \subsection
TexPromotional ==
    [TexGood EXCEPT !.citation_count = 2, !.promotional = TRUE,
                    !.contains = {"\\subsection", "\\label"}]

\* An \item outside a list, every brace balanced
TexStrayItem ==
    [TexGood EXCEPT !.contains = {"\\section", "\\label", "\\item"}]

Texts == {TexGood, TexEmpty, TexShort, TexUnbalanced, TexPlain,
          TexPromotional, TexStrayItem}

\* The deductions of validate_latex_quality (lines 1100-1183) that apply to
\* a non-empty text: what is appended to `issues` or to `latex_errors` and
\* how much score it costs
Deductions(latex_content, expected_citations) ==
    {d \in
      { [tag |-> "too short", points |-> 20, list |-> "issues",
         applies |-> latex_content.length < min_length],
        [tag |-> "too long", points |-> 10, list |-> "issues",
         applies |-> latex_content.length > max_length],
        [tag |-> "low citation count", points |-> 15, list |-> "issues",
         applies |-> latex_content.citation_count < expected_citations],
        [tag |-> "missing section structure", points |-> 15,
         list |-> "issues",
         applies |-> latex_content.section_count < min_sections],
        [tag |-> "missing \\section", points |-> 10, list |-> "issues",
         applies |-> "\\section" \in required_elements
                     /\ "\\section" \notin latex_content.contains],
        [tag |-> "missing \\label", points |-> 10, list |-> "issues",
         applies |-> "\\label" \in required_elements
                     /\ "\\label" \notin latex_content.contains],
        [tag |-> "section without label", points |-> 10, list |-> "issues",
         applies |-> "\\section" \in latex_content.contains
                     /\ "\\label" \notin latex_content.contains],
        [tag |-> "unbalanced braces", points |-> 20,
         list |-> "latex_errors",
         applies |-> latex_content.open_braces # latex_content.close_braces],
        [tag |-> "unbalanced environments", points |-> 15,
         list |-> "latex_errors",
         applies |-> latex_content.begin_count # latex_content.end_count],
        [tag |-> "unescaped special characters", points |-> 5,
         list |-> "issues", applies |-> latex_content.unescaped],
        [tag |-> "item outside list", points |-> 10,
         list |-> "latex_errors",
         applies |-> "\\item" \in latex_content.contains
                     /\ "\\begin{itemize}" \notin latex_content.contains
                     /\ "\\begin{enumerate}" \notin latex_content.contains],
        [tag |-> "promotional language", points |-> 10, list |-> "issues",
         applies |-> latex_content.promotional] } : d.applies}

RECURSIVE SumPoints(_)
SumPoints(ds) ==
    IF ds = {} THEN 0
    ELSE LET d == CHOOSE x \in ds : TRUE
         IN  d.points + SumPoints(ds \ {d})

Max(a, b) == IF a >= b THEN a ELSE b
Min(a, b) == IF a <= b THEN a ELSE b

\* quality_report before any validation: {}
NoReport == [is_valid |-> FALSE, score |-> 0, issues |-> {},
             latex_errors |-> {}]

\* score = max(0, score)
ClampScore_unclamped(score) == score
ClampScore(score) == Max(0, score)

\* is_valid = score >= 60 and len(latex_errors) == 0
DetermineValidity_score_only(score, latex_errors) == score >= 60
DetermineValidity(score, latex_errors) ==
    score >= 60 /\ Cardinality(latex_errors) = 0

\* validate_latex_quality
validate_latex_quality(latex_content, expected_citations) ==
    IF latex_content.length = 0
    THEN [is_valid |-> FALSE, score |-> 0, issues |-> {"empty content"},
          latex_errors |-> {}]
    ELSE LET ds     == Deductions(latex_content, expected_citations)
             errors == {d.tag : d \in {x \in ds : x.list = "latex_errors"}}
             score  == ClampScore(100 - SumPoints(ds))
         IN  [is_valid |-> DetermineValidity(score, errors),
              score |-> score,
              issues |-> {d.tag : d \in {x \in ds : x.list = "issues"}},
              latex_errors |-> errors]

\* expected_citations of validation_node: between 3 and 10
ExpectedCitations_no_floor(n) == Min(n, 10)
ExpectedCitations(n) == Min(Max(n, 3), 10)

\* should_refine: the conditional edge after validation
should_refine_no_cap(report, revisions) ==
    IF ~ report.is_valid \/ report.score < 70
       \/ Cardinality(report.latex_errors) > 0
    THEN "refine" ELSE "end"
should_refine(report, revisions) ==
    IF revisions >= 2 THEN "end"
    ELSE IF ~ report.is_valid \/ report.score < 70
            \/ Cardinality(report.latex_errors) > 0
    THEN "refine"
    ELSE "end"

\* The edges create_section_writing_graph adds after the validation node
AfterValidation(refinement_enabled, report, revisions) ==
    IF refinement_enabled
    THEN IF should_refine(report, revisions) = "refine"
         THEN "refinement" ELSE "END"
    ELSE "END"

\* What llm.invoke of the refinement node can do: return a text (after the
\* code fences are removed and the text is stripped) or raise
RaiseOutcome == [kind |-> "raise"]
TextOutcome(t) == [kind |-> "text", tex |-> t]
GenerationOutcomes == {TextOutcome(t) : t \in Texts} \cup {RaiseOutcome}

\* refinement_node: the update it returns for output_tex and revision_count
refinement_node_discard_uncounted(tex, report, revisions, outcome) ==
    IF report.is_valid /\ report.score >= 80
    THEN [output_tex |-> tex, revision_count |-> revisions]
    ELSE IF revisions >= 2
    THEN [output_tex |-> tex, revision_count |-> revisions]
    ELSE IF outcome.kind = "text"
            /\ ("\\section" \in outcome.tex.contains
                \/ "\\subsection" \in outcome.tex.contains)
    THEN [output_tex |-> outcome.tex, revision_count |-> revisions + 1]
    ELSE [output_tex |-> tex, revision_count |-> revisions]
refinement_node(tex, report, revisions, outcome) ==
    IF report.is_valid /\ report.score >= 80
    THEN [output_tex |-> tex, revision_count |-> revisions]
    ELSE IF revisions >= 2
    THEN [output_tex |-> tex, revision_count |-> revisions]
    ELSE IF outcome.kind = "text"
            /\ ("\\section" \in outcome.tex.contains
                \/ "\\subsection" \in outcome.tex.contains)
    THEN [output_tex |-> outcome.tex, revision_count |-> revisions + 1]
    ELSE \* not LaTeX, or llm.invoke raised: the attempt is discarded
         [output_tex |-> tex, revision_count |-> revisions + 1]

\* The unconditional edges of create_section_writing_graph
Edge_refinement_ends(n) ==
    CASE n = "planning"   -> "writing"
      [] n = "writing"    -> "validation"
      [] n = "refinement" -> "END"
Edge(n) ==
    CASE n = "planning"   -> "writing"
      [] n = "writing"    -> "validation"
      [] n = "refinement" -> "validation"

\* The sections of a batch and the numbers of relevant papers planning finds
MaxBatch     == 2      \* longest list given to write_all_sections
MaxCrossRefs == 4      \* most relevant papers find_relevant_papers returns
BatchIds == { <<2,5,1>>, <<2,5,2>>, <<2,5,7>> }
CrossRefCounts == {0, MaxCrossRefs}

\* initial_state of write_all_sections, lines 1967-1982
EnterGraph ==
    /\ node' = "planning"
    /\ visited' = <<"planning">>
    /\ section_guidance' = ""
    /\ cross_references' = 0
    /\ related_sections_tex' = {}
    /\ output_tex' = TexEmpty
    /\ quality_report' = NoReport
    /\ revision_count' = 0

\* sorted_sections = topological_sort_sections(sections)
BatchOrder_as_given(secs, sorted) == secs
BatchOrder(secs, sorted) == sorted

\* write_all_sections up to the first graph.invoke: the batch is sorted
\* (the sort has run) and the loop starts
StartBatch ==
    /\ node = "idle"
    /\ sort_pc = "done"
    /\ sorted_sections' = BatchOrder(sections, result)
    /\ batch_results' = EmptyMap
    /\ IF sections = <<>>
       THEN /\ batch_idx' = 0
            /\ node' = "finished"
            /\ UNCHANGED <<visited, cross_references, related_sections_tex,
                           output_tex, quality_report, revision_count,
                           section_guidance>>
       ELSE /\ batch_idx' = 1
            /\ EnterGraph
    /\ UNCHANGED <<enable_refinement, tex_files, sort_vars, worker_vars,
                   dedup_vars, retry_vars, extract_vars,
                   other_vars>>

\* planning_node: guidance, relevant papers and the written content of the
\* related sections; a missing guidance file returns early
PlanningNode_failure_stops(guidance_found, n) ==
    /\ node = "planning"
    /\ IF guidance_found
       THEN /\ section_guidance' = "guidance"
            /\ cross_references' = n
            /\ related_sections_tex' =
                  {d \in graph(sorted_sections[batch_idx]) : d \in tex_files}
       ELSE /\ section_guidance' = ""
            /\ UNCHANGED <<cross_references, related_sections_tex>>
    /\ node' = IF guidance_found THEN Edge("planning") ELSE "END"
    /\ visited' = Append(visited, node')
    /\ UNCHANGED <<enable_refinement, sorted_sections, batch_idx, output_tex,
                   quality_report, revision_count, batch_results, tex_files,
                   sort_vars, worker_vars, dedup_vars, retry_vars,
                   extract_vars,
                   other_vars>>
PlanningNode(guidance_found, n) ==
    /\ node = "planning"
    /\ IF guidance_found
       THEN /\ section_guidance' = "guidance"
            /\ cross_references' = n
            /\ related_sections_tex' =
                  {d \in graph(sorted_sections[batch_idx]) : d \in tex_files}
       ELSE /\ section_guidance' = ""
            /\ UNCHANGED <<cross_references, related_sections_tex>>
    /\ node' = Edge("planning")
    /\ visited' = Append(visited, node')
    /\ UNCHANGED <<enable_refinement, sorted_sections, batch_idx, output_tex,
                   quality_report, revision_count, batch_results, tex_files,
                   sort_vars, worker_vars, dedup_vars, retry_vars,
                   extract_vars,
                   other_vars>>

\* writing_node: the retry loop either raises out of the graph or yields a
\* result from which latex_content ("" when nothing can be extracted) is
\* taken
WritingNode(outcome) ==
    /\ node = "writing"
    /\ IF outcome.kind = "raise"
       THEN /\ node' = "raised"
            /\ UNCHANGED output_tex
       ELSE /\ node' = Edge("writing")
            /\ output_tex' = outcome.tex
    /\ visited' = Append(visited, node')
    /\ UNCHANGED <<enable_refinement, section_guidance, sorted_sections,
                   batch_idx, cross_references,
                   related_sections_tex, quality_report, revision_count,
                   batch_results, tex_files, sort_vars, worker_vars,
                   dedup_vars, retry_vars, extract_vars,
                   other_vars>>

\* validation_node followed by the edge out of it
ValidationNode ==
    /\ node = "validation"
    /\ quality_report' =
          validate_latex_quality(output_tex,
                                 ExpectedCitations(cross_references))
    /\ node' = AfterValidation(enable_refinement, quality_report',
                               revision_count)
    /\ visited' = Append(visited, node')
    /\ UNCHANGED <<enable_refinement, section_guidance, sorted_sections,
                   batch_idx, cross_references,
                   related_sections_tex, output_tex, revision_count,
                   batch_results, tex_files, sort_vars, worker_vars,
                   dedup_vars, retry_vars, extract_vars,
                   other_vars>>

\* refinement_node followed by the edge back to validation
RefinementNode_resets_report(outcome) ==
    /\ node = "refinement"
    /\ LET update == refinement_node(output_tex, quality_report,
                                     revision_count, outcome)
       IN  /\ output_tex' = update.output_tex
           /\ revision_count' = update.revision_count
    /\ quality_report' = NoReport
    /\ node' = Edge("refinement")
    /\ visited' = Append(visited, node')
    /\ UNCHANGED <<enable_refinement, section_guidance, sorted_sections,
                   batch_idx, cross_references,
                   related_sections_tex, batch_results,
                   tex_files, sort_vars, worker_vars, dedup_vars, retry_vars,
                   extract_vars,
                   other_vars>>
RefinementNode(outcome) ==
    /\ node = "refinement"
    /\ LET update == refinement_node(output_tex, quality_report,
                                     revision_count, outcome)
       IN  /\ output_tex' = update.output_tex
           /\ revision_count' = update.revision_count
    /\ node' = Edge("refinement")
    /\ visited' = Append(visited, node')
    /\ UNCHANGED <<enable_refinement, section_guidance, sorted_sections,
                   batch_idx, cross_references,
                   related_sections_tex, quality_report, batch_results,
                   tex_files, sort_vars, worker_vars, dedup_vars, retry_vars,
                   extract_vars,
                   other_vars>>

\* The entry of results[section_id] (lines 1987-2008)
SectionStatus(final_node, tex, report) ==
    IF final_node = "END" /\ tex.length > 0
    THEN [status |-> "success", length |-> tex.length,
          quality_score |-> report.score]
    ELSE [status |-> "failed"]

\* `for idx, section_id in enumerate(sorted_sections, 1)` with the
\* try/except around the body: whatever the graph run did, the loop goes on
\* while sections are left
LoopContinues_until_raise(final_node, i, n) == final_node # "raised" /\ i < n
LoopContinues(final_node, i, n) == i < n

\* graph.invoke has returned or raised: the file is saved, the entry of
\* `results` is written and the loop goes on to the next section
RecordSection ==
    /\ node \in {"END", "raised"}
    /\ LET section_id == sorted_sections[batch_idx]
           entry == SectionStatus(node, output_tex, quality_report)
       IN  /\ batch_results' = (section_id :> entry) @@ batch_results
           /\ tex_files' = IF entry.status = "success"
                           THEN tex_files \cup {section_id} ELSE tex_files
    /\ IF LoopContinues(node, batch_idx, Len(sorted_sections))
       THEN /\ batch_idx' = batch_idx + 1
            /\ EnterGraph
       ELSE /\ node' = "finished"
            /\ UNCHANGED <<batch_idx, visited, cross_references,
                           related_sections_tex, output_tex, quality_report,
                           revision_count, section_guidance>>
    /\ UNCHANGED <<enable_refinement, sorted_sections, sort_vars,
                   worker_vars, dedup_vars, retry_vars, extract_vars,
                   other_vars>>

\* ------------------------------------------------------------------------
\* main of the section writer: the exit status
\* ------------------------------------------------------------------------
NotExited == -1

\* The default `sections` of write_all_sections and of generate_main_tex
DefaultSections ==
    << <<2,5,1>>, <<2,5,2>>, <<2,5,3>>, <<2,5,4>>, <<2,5,5>>, <<2,5,6>>,
       <<2,5,6,1>>, <<2,5,6,2>>, <<2,5,6,3>>, <<2,5,6,4>>, <<2,5,7>> >>

NoMainTex == [written |-> FALSE, sections |-> <<>>]

\* generate_main_tex: one \input per section of the list whose fragment
\* exists, in the order of the list
generate_main_tex_all(secs, files) ==
    [written |-> TRUE, sections |-> secs]
generate_main_tex(secs, files) ==
    [written |-> TRUE, sections |-> SelectSeq(secs, LAMBDA x : x \in files)]

CliIdle ==
    /\ cli_mode = "none"
    /\ papers_exists = TRUE
    /\ exit_status = NotExited
    /\ main_tex = NoMainTex

CliRest == <<sort_vars, worker_vars, dedup_vars, retry_vars, extract_vars,
             gate_vars, parse_vars, search_vars>>

Failed(res) == {s \in DOMAIN res : res[s].status = "failed"}

\* --all / --batch: load_papers_json in write_all_sections raises and
\* nothing catches it: the interpreter exits with status 1
MainBatchAborts ==
    /\ cli_mode = "batch"
    /\ exit_status = NotExited
    /\ ~ papers_exists
    /\ exit_status' = 1
    /\ UNCHANGED <<cli_mode, papers_exists, main_tex, writer_vars, CliRest>>

\* --all / --batch: write_all_sections ends with generate_main_tex on the
\* sorted batch and returns; sys.exit(1 if failed > 0 else 0)
MainBatchExit_always_zero ==
    /\ cli_mode = "batch"
    /\ exit_status = NotExited
    /\ node = "finished"
    /\ main_tex' = generate_main_tex(sorted_sections, tex_files)
    /\ exit_status' = 0
    /\ UNCHANGED <<cli_mode, papers_exists, writer_vars, CliRest>>
MainBatchExit ==
    /\ cli_mode = "batch"
    /\ exit_status = NotExited
    /\ node = "finished"
    /\ main_tex' = generate_main_tex(sorted_sections, tex_files)
    /\ exit_status' = IF Cardinality(Failed(batch_results)) > 0 THEN 1 ELSE 0
    /\ UNCHANGED <<cli_mode, papers_exists, writer_vars, CliRest>>

\* single section: the papers file does not exist, sys.exit(1)
MainSingleMissing ==
    /\ cli_mode = "single"
    /\ exit_status = NotExited
    /\ ~ papers_exists
    /\ exit_status' = 1
    /\ UNCHANGED <<cli_mode, papers_exists, main_tex, writer_vars, CliRest>>

\* single section: the graph is invoked on the section
MainSingleInvoke ==
    /\ cli_mode = "single"
    /\ exit_status = NotExited
    /\ papers_exists
    /\ node = "idle"
    /\ sorted_sections' = sections
    /\ batch_idx' = 1
    /\ EnterGraph
    /\ UNCHANGED <<enable_refinement, batch_results, tex_files, cli_vars,
                   CliRest>>

\* single section: graph.invoke raised (nothing catches it), or returned
\* with a text, which is saved, or without one, sys.exit(1)
MainSingleExit ==
    /\ cli_mode = "single"
    /\ exit_status = NotExited
    /\ node \in {"END", "raised"}
    /\ LET saved == node = "END" /\ output_tex.length > 0
       IN  /\ exit_status' = IF saved THEN 0 ELSE 1
           /\ tex_files' = IF saved
                           THEN tex_files \cup {sorted_sections[batch_idx]}
                           ELSE tex_files
           /\ \E no_main \in BOOLEAN :
                 main_tex' = IF saved /\ ~ no_main
                             THEN generate_main_tex(DefaultSections,
                                                    tex_files')
                             ELSE main_tex
    /\ node' = "finished"
    /\ UNCHANGED <<cli_mode, papers_exists, enable_refinement,
                   section_guidance,
                   sorted_sections, batch_idx, cross_references,
                   related_sections_tex, output_tex, quality_report,
                   revision_count, batch_results, visited, CliRest>>

\* --generate-main: the message is printed when the papers file is missing
\* and sys.exit(1), which follows the if at the indentation of the if, runs
\* in either case; the lines after it are not reached
MainGenerateMain ==
    /\ cli_mode = "generate_main"
    /\ exit_status = NotExited
    /\ exit_status' = 1
    /\ UNCHANGED <<cli_mode, papers_exists, main_tex, writer_vars, CliRest>>

\* graph.invoke(initial_state) of write_all_sections taken as one step: it
\* returns with a text, returns without one, or raises
InvokeOutcomes == {"text", "empty", "raised"}

GraphInvoke(outcome) ==
    /\ node = "planning"
    /\ node' = IF outcome = "raised" THEN "raised" ELSE "END"
    /\ output_tex' = IF outcome = "text" THEN TexGood ELSE TexEmpty
    /\ quality_report' =
          IF outcome = "raised" THEN NoReport
          ELSE validate_latex_quality(
                   IF outcome = "text" THEN TexGood ELSE TexEmpty,
                   ExpectedCitations(0))
    /\ UNCHANGED <<enable_refinement, section_guidance, sorted_sections,
                   batch_idx,
                   cross_references, related_sections_tex, revision_count,
                   batch_results, tex_files, visited, cli_vars, CliRest>>

\* ========================================================================
\* The retry loops: process_section and writing_node around the generation
\* call, PubMedSearcher._make_request_with_retry around requests.get
\* ========================================================================
GenerationSites == {"process_section", "writing_node"}
HttpSite == "_make_request_with_retry"
RetrySites == GenerationSites \cup {HttpSite}

http_max_retries == 3
initial_delay    == 1    \* seconds

\* range(max_retries) of each loop
Budget(site) == IF site = HttpSite THEN http_max_retries ELSE max_retries

\* What requests.get can end in other than a good response: status 429,
\* another error status (raise_for_status), a RequestException, or an
\* exception of another type
HttpFailures ==
    { [kind |-> "status_429"], [kind |-> "HTTPError"],
      [kind |-> "RequestException"], [kind |-> "other"] }

Failures(site) == IF site = HttpSite THEN HttpFailures ELSE Errors

NoError == [kind |-> "none"]

\* after the for loop: `raise ...("Max retries exceeded")` and
\* `raise Exception("Failed to get result after ... attempts")`
LoopExhausted == [kind |-> "retries exhausted"]

\* The condition under which a failed call is followed by a sleep
Retryable_ignoring_attempt(site, e, att) ==
    IF site = HttpSite
    THEN e.kind \in {"status_429", "HTTPError", "RequestException"}
    ELSE is_rate_limit(e)
Retryable(site, e, att) ==
    IF site = HttpSite
    THEN /\ e.kind \in {"status_429", "HTTPError", "RequestException"}
         /\ att < http_max_retries - 1
    ELSE is_rate_limit(e) /\ att < max_retries - 1

\* The sleep before the next attempt, in half seconds
RetryDelay(site, e, att) ==
    IF site = HttpSite THEN 2 * initial_delay * Pow2(att)
    ELSE BackoffDelay(e, att)

\* The call returns: `break` / `return response`
CallReturns ==
    /\ retry_pc = "call"
    /\ calls' = calls + 1
    /\ retry_pc' = "returned"
    /\ UNCHANGED <<retry_site, retry_attempt, retry_delay, last_error,
                   raised_error, sort_vars, worker_vars, dedup_vars,
                   writer_vars, extract_vars,
                   other_vars>>

\* The call fails and the loop sleeps before `continue`
CallFailsRetry(e) ==
    /\ retry_pc = "call"
    /\ Retryable(retry_site, e, retry_attempt)
    /\ calls' = calls + 1
    /\ last_error' = e
    /\ retry_delay' = RetryDelay(retry_site, e, retry_attempt)
    /\ retry_pc' = "sleep"
    /\ UNCHANGED <<retry_site, retry_attempt, raised_error, sort_vars,
                   worker_vars, dedup_vars, writer_vars, extract_vars,
                   other_vars>>

\* The call fails and the error is re-raised by the bare `raise`
CallFailsRaise(e) ==
    /\ retry_pc = "call"
    /\ ~ Retryable(retry_site, e, retry_attempt)
    /\ calls' = calls + 1
    /\ last_error' = e
    /\ raised_error' = e
    /\ retry_pc' = "raised"
    /\ UNCHANGED <<retry_site, retry_attempt, retry_delay, sort_vars,
                   worker_vars, dedup_vars, writer_vars, extract_vars,
                   other_vars>>

\* The sleep ends: the for loop takes its next value, or is exhausted and
\* the statement after it raises
SleepDone ==
    /\ retry_pc = "sleep"
    /\ retry_delay' = 0
    /\ retry_attempt' = retry_attempt + 1
    /\ IF retry_attempt + 1 < Budget(retry_site)
       THEN /\ retry_pc' = "call"
            /\ UNCHANGED raised_error
       ELSE /\ retry_pc' = "raised"
            /\ raised_error' = LoopExhausted
    /\ UNCHANGED <<retry_site, calls, last_error, sort_vars, worker_vars,
                   dedup_vars, writer_vars, extract_vars,
                   other_vars>>

\* ========================================================================
\* extract_papers_from_result over bounded agent results
\* ========================================================================
MaxExtract == 2        \* longest candidate list of an agent result

\* a placeholder title next to a real url
PaperNoTitle == Paper(TitleDots, UrlA, DescX)

SamplePapers == {PaperA, PaperA2, PaperB, PaperDots, PaperFtp, PaperNoTitle}

NotExtracted == [done |-> FALSE, papers |-> <<>>]

ExtractPapers ==
    /\ ~ extract_output.done
    /\ extract_output' =
          [done |-> TRUE, papers |-> extract_papers_from_result(extract_input)]
    /\ UNCHANGED <<extract_input, sort_vars, worker_vars, dedup_vars,
                   writer_vars, retry_vars, other_vars>>

\* ========================================================================
\* Specifications
\* ========================================================================
WorkerIdle ==
    /\ section_list = <<>>
    /\ task_pc = <<>>
    /\ attempt = <<>>
    /\ delay = <<>>
    /\ agent_result = <<>>
    /\ task_return = <<>>
    /\ semaphore = max_concurrent
    /\ completed = <<>>
    /\ results = <<>>
    /\ section_files = EmptyMap
    /\ section_results = EmptyMap
    /\ phase = "idle"

WriterIdle ==
    /\ enable_refinement = TRUE
    /\ sorted_sections = <<>>
    /\ batch_idx = 0
    /\ node = "idle"
    /\ cross_references = 0
    /\ related_sections_tex = {}
    /\ output_tex = TexEmpty
    /\ quality_report = NoReport
    /\ revision_count = 0
    /\ section_guidance = ""
    /\ batch_results = EmptyMap
    /\ tex_files = {}
    /\ visited = <<>>

\* ------------------------------------------------------------------------
\* parse_regulation_file
\* ------------------------------------------------------------------------
MaxLines == 3       \* most lines of an outline
MaxInts == 5        \* most integers of a numbered line

Digits == {"0", "1", "2", "3", "4", "5", "6", "7", "8", "9"}

\* \d+ : the position after the digits that start at i
RECURSIVE SkipDigits(_, _)
SkipDigits(line, i) ==
    IF i <= Len(line) /\ line[i] \in Digits
    THEN SkipDigits(line, i + 1) ELSE i

\* (\.\d+)* after an integer that ends before i, k integers read so far
RECURSIVE ScanId(_, _, _)
ScanId(line, i, k) ==
    IF i + 1 <= Len(line) /\ line[i] = "." /\ line[i + 1] \in Digits
    THEN ScanId(line, SkipDigits(line, i + 1), k + 1)
    ELSE [end |-> i, count |-> k]

NoMatch == [matched |-> FALSE, id |-> <<>>, title |-> <<>>]

\* re.match(r'^(\d+\.\d+\.\d+(?:\.\d+)?)\s+(.+)$', line) on a stripped line:
\* the integers are maximal runs of digits because what follows the id is
\* whitespace
section_match_two_to_four(line) ==
    LET first == SkipDigits(line, 1)
        scan  == ScanId(line, first, 1)
        rest  == SubSeq(line, scan.end, Len(line))
    IN  IF /\ first > 1
           /\ scan.count \in {2, 3, 4}
           /\ rest # <<>> /\ Head(rest) \in Whitespace
           /\ LStrip(rest) # <<>>
        THEN [matched |-> TRUE, id |-> SubSeq(line, 1, scan.end - 1),
              title |-> LStrip(rest)]
        ELSE NoMatch
section_match(line) ==
    LET first == SkipDigits(line, 1)
        scan  == ScanId(line, first, 1)
        rest  == SubSeq(line, scan.end, Len(line))
    IN  IF /\ first > 1
           /\ scan.count \in {3, 4}
           /\ rest # <<>> /\ Head(rest) \in Whitespace
           /\ LStrip(rest) # <<>>
        THEN [matched |-> TRUE, id |-> SubSeq(line, 1, scan.end - 1),
              title |-> LStrip(rest)]
        ELSE NoMatch

\* "\n".join(lines)
RECURSIVE JoinLines(_)
JoinLines(lines) ==
    IF lines = <<>> THEN <<>>
    ELSE IF Len(lines) = 1 THEN lines[1]
    ELSE lines[1] \o <<"\n">> \o JoinLines(Tail(lines))

\* sections[id] = {"title": ..., "description": ...}: a new key goes last,
\* an existing key keeps its place
SetSection(dict, id, title, description) ==
    LET entry == [id |-> id, title |-> title,
                  description |-> Strip(JoinLines(description))]
    IN  IF \E i \in 1..Len(dict) : dict[i].id = id
        THEN [i \in 1..Len(dict) |->
                 IF dict[i].id = id THEN entry ELSE dict[i]]
        ELSE Append(dict, entry)

None == <<>>

ParseIdle ==
    /\ outline = <<>>
    /\ line_idx = 0
    /\ parsed_sections = <<>>
    /\ current_section_id = None
    /\ current_section_title = None
    /\ current_description = <<>>
    /\ parse_pc = "idle"

ParseRest == <<sort_vars, worker_vars, dedup_vars, writer_vars, retry_vars,
               extract_vars, gate_vars, cli_vars, search_vars>>

\* one iteration of `for line in lines`
ParseLine ==
    /\ parse_pc = "loop"
    /\ line_idx <= Len(outline)
    /\ line_idx' = line_idx + 1
    /\ LET line == Strip(outline[line_idx])
           m    == section_match(line)
       IN  IF line = <<>>
           THEN UNCHANGED <<parsed_sections, current_section_id,
                            current_section_title, current_description>>
           ELSE IF m.matched
           THEN /\ parsed_sections' =
                      IF current_section_id # None
                      THEN SetSection(parsed_sections, current_section_id,
                                      current_section_title,
                                      current_description)
                      ELSE parsed_sections
                /\ current_section_id' = m.id
                /\ current_section_title' = m.title
                /\ current_description' = <<>>
           ELSE /\ current_description' =
                      IF current_section_id # None
                      THEN Append(current_description, line)
                      ELSE current_description
                /\ UNCHANGED <<parsed_sections, current_section_id,
                               current_section_title>>
    /\ UNCHANGED <<outline, parse_pc, ParseRest>>

\* after the loop: save the last section and return
ParseFinish_drop_last ==
    /\ parse_pc = "loop"
    /\ line_idx > Len(outline)
    /\ parsed_sections' = parsed_sections
    /\ parse_pc' = "done"
    /\ UNCHANGED <<outline, line_idx, current_section_id,
                   current_section_title, current_description, ParseRest>>
ParseFinish ==
    /\ parse_pc = "loop"
    /\ line_idx > Len(outline)
    /\ parsed_sections' =
          IF current_section_id # None
          THEN SetSection(parsed_sections, current_section_id,
                          current_section_title, current_description)
          ELSE parsed_sections
    /\ parse_pc' = "done"
    /\ UNCHANGED <<outline, line_idx, current_section_id,
                   current_section_title, current_description, ParseRest>>

\* ------------------------------------------------------------------------
\* PubMedSearcher: _rate_limit and _make_request_with_retry
\* ------------------------------------------------------------------------
min_request_interval == 35     \* _min_request_interval, hundredths of a second
max_concurrent_requests == 2   \* _max_concurrent_requests
TickLength == 20    \* hundredths of a second the clock advances at a time
MaxTicks == 5       \* times the clock advances

\* one more thread calls _make_request_with_retry than there are slots
HttpThreads == 1..(max_concurrent_requests + 1)

\* time.time() counts from the epoch: far more than the interval
StartTime == min_request_interval

\* positions at which a thread is inside `with _request_semaphore`
InSlot == {"rate_limit", "sleep", "request", "in_flight", "backoff_in_slot"}

GateIdle ==
    /\ clock = StartTime
    /\ last_request_time = 0
    /\ rate_limit_lock = 0
    /\ request_semaphore = max_concurrent_requests
    /\ http_pc = [t \in HttpThreads |-> "idle"]
    /\ http_attempt = [t \in HttpThreads |-> 0]
    /\ wake_time = [t \in HttpThreads |-> 0]
    /\ stamps = <<>>
    /\ request_start = [t \in HttpThreads |-> 0]

\* ------------------------------------------------------------------------
\* PubMedSearcher.search_papers and the search_research_papers tool
\* ------------------------------------------------------------------------
MaxPmids == 2       \* most ids an esearch response lists

NotReturned == [kind |-> "none"]
PaperList(n) == [kind |-> "list", count |-> n]
Propagated(e) == [kind |-> "raise", error |-> e]

SearchIdle ==
    /\ search_pc = "idle"
    /\ pmids = 0
    /\ search_caught = "none"
    /\ search_return = NotReturned
    /\ tool_return = NotReturned

SearchRest == <<sort_vars, worker_vars, dedup_vars, writer_vars,
                extract_vars, gate_vars, parse_vars, cli_vars>>

\* The except clauses of search_papers in their order: the clause that
\* catches e, "none" when no clause does
search_handler_no_catch_all(e) ==
    IF e.kind \in {"status_429", "HTTPError", "RequestException",
                   "retries exhausted"}
    THEN "RequestException"
    ELSE IF e.kind = "ParseError" THEN "ParseError"
    ELSE "none"
search_handler(e) ==
    IF e.kind \in {"status_429", "HTTPError", "RequestException",
                   "retries exhausted"}
    THEN "RequestException"
    ELSE IF e.kind = "ParseError" THEN "ParseError"
    ELSE "Exception"

\* e is raised inside the try block: every clause returns []
SearchRaise(e) ==
    LET clause == search_handler(e)
    IN  /\ search_caught' = clause
        /\ search_return' = IF clause = "none" THEN Propagated(e)
                                               ELSE PaperList(0)
        /\ search_pc' = "returned"

\* What response.json() and the lookups after it give: a list of ids, or
\* an exception (requests' JSONDecodeError is a RequestException, a
\* response that is not an object gives an exception of another type)
EsearchBodies ==
    [kind : {"pmids"}, count : 0..MaxPmids]
      \cup {[kind |-> "RequestException"], [kind |-> "other"]}

\* What ET.fromstring and the loop over the articles give
EfetchBodies(n) ==
    [kind : {"articles"}, count : 0..n]
      \cup {[kind |-> "ParseError"], [kind |-> "other"]}

\* _make_request_with_retry raised out of either request
RequestRaises ==
    /\ search_pc \in {"esearch", "efetch"}
    /\ retry_pc = "raised"
    /\ SearchRaise(raised_error)
    /\ UNCHANGED <<pmids, tool_return, retry_vars, SearchRest>>

\* the esearch response is read: no ids returns [], ids start the second
\* request
EsearchResponse(body) ==
    /\ search_pc = "esearch"
    /\ retry_pc = "returned"
    /\ IF body.kind # "pmids"
       THEN /\ SearchRaise(body)
            /\ UNCHANGED <<pmids, retry_vars>>
       ELSE IF body.count = 0
       THEN /\ search_return' = PaperList(0)
            /\ search_pc' = "returned"
            /\ UNCHANGED <<pmids, search_caught, retry_vars>>
       ELSE /\ pmids' = body.count
            /\ search_pc' = "efetch"
            /\ retry_pc' = "call"
            /\ retry_attempt' = 0
            /\ retry_delay' = 0
            /\ calls' = 0
            /\ last_error' = NoError
            /\ raised_error' = NoError
            /\ UNCHANGED <<retry_site, search_caught, search_return>>
    /\ UNCHANGED <<tool_return, SearchRest>>

\* the efetch response is parsed into the list of papers
EfetchResponse(body) ==
    /\ search_pc = "efetch"
    /\ retry_pc = "returned"
    /\ IF body.kind # "articles"
       THEN SearchRaise(body)
       ELSE /\ search_return' = PaperList(body.count)
            /\ search_pc' = "returned"
            /\ UNCHANGED search_caught
    /\ UNCHANGED <<pmids, tool_return, retry_vars, SearchRest>>

\* search_research_papers: the JSON text of the result, or the error text
\* of its own except clause
search_research_papers(ret) ==
    IF ret.kind = "raise" THEN [kind |-> "error_text", error |-> ret.error]
    ELSE [kind |-> "json", count |-> ret.count]

ToolReturns ==
    /\ search_pc = "returned"
    /\ tool_return' = search_research_papers(search_return)
    /\ search_pc' = "tool_returned"
    /\ UNCHANGED <<pmids, search_caught, search_return, retry_vars,
                   SearchRest>>

OtherIdle == GateIdle /\ ParseIdle /\ CliIdle /\ SearchIdle

GateRest == <<sort_vars, worker_vars, dedup_vars, writer_vars, retry_vars,
              extract_vars, parse_vars, cli_vars, search_vars>>

\* time passes
Tick ==
    /\ clock < StartTime + MaxTicks * TickLength
    /\ clock' = clock + TickLength
    /\ UNCHANGED <<last_request_time, rate_limit_lock, request_semaphore,
                   http_pc, http_attempt, wake_time, stamps, request_start,
                   GateRest>>

\* with PubMedSearcher._request_semaphore: blocks while no slot is free
AcquireSlot(t) ==
    /\ http_pc[t] = "attempt"
    /\ request_semaphore > 0
    /\ request_semaphore' = request_semaphore - 1
    /\ http_pc' = [http_pc EXCEPT ![t] = "rate_limit"]
    /\ UNCHANGED <<clock, last_request_time, rate_limit_lock, http_attempt,
                   wake_time, stamps, request_start, GateRest>>

\* _rate_limit up to the sleep: take the lock, read the clock and the last
\* timestamp, sleep for what is left of the interval
RateLimitEnter_unlocked(t) ==
    /\ http_pc[t] = "rate_limit"
    /\ rate_limit_lock' = t
    /\ LET time_since_last == clock - last_request_time
       IN  wake_time' = [wake_time EXCEPT ![t] =
               IF time_since_last < min_request_interval
               THEN clock + (min_request_interval - time_since_last)
               ELSE clock]
    /\ http_pc' = [http_pc EXCEPT ![t] = "sleep"]
    /\ UNCHANGED <<clock, last_request_time, request_semaphore,
                   http_attempt, stamps, request_start, GateRest>>
RateLimitEnter(t) ==
    /\ http_pc[t] = "rate_limit"
    /\ rate_limit_lock = 0
    /\ rate_limit_lock' = t
    /\ LET time_since_last == clock - last_request_time
       IN  wake_time' = [wake_time EXCEPT ![t] =
               IF time_since_last < min_request_interval
               THEN clock + (min_request_interval - time_since_last)
               ELSE clock]
    /\ http_pc' = [http_pc EXCEPT ![t] = "sleep"]
    /\ UNCHANGED <<clock, last_request_time, request_semaphore,
                   http_attempt, stamps, request_start, GateRest>>

\* the sleep returns no earlier than asked; _last_request_time = time.time()
\* and the lock is released
RateLimitExit(t) ==
    /\ http_pc[t] = "sleep"
    /\ clock >= wake_time[t]
    /\ last_request_time' = clock
    /\ stamps' = Append(stamps, clock)
    /\ rate_limit_lock' = 0
    /\ http_pc' = [http_pc EXCEPT ![t] = "request"]
    /\ UNCHANGED <<clock, request_semaphore, http_attempt, wake_time,
                   request_start, GateRest>>

\* requests.get(url, params=params, timeout=30) is called
SendRequest(t) ==
    /\ http_pc[t] = "request"
    /\ request_start' = [request_start EXCEPT ![t] = clock]
    /\ http_pc' = [http_pc EXCEPT ![t] = "in_flight"]
    /\ UNCHANGED <<clock, last_request_time, rate_limit_lock,
                   request_semaphore, http_attempt, wake_time, stamps,
                   GateRest>>

\* a response that raise_for_status accepts: return response
RequestReturns(t) ==
    /\ http_pc[t] = "in_flight"
    /\ request_start' = [request_start EXCEPT ![t] = 0]
    /\ request_semaphore' = request_semaphore + 1
    /\ http_pc' = [http_pc EXCEPT ![t] = "returned"]
    /\ UNCHANGED <<clock, last_request_time, rate_limit_lock, http_attempt,
                   wake_time, stamps, GateRest>>

\* status 429 before the last attempt: time.sleep(delay) inside the with
RateLimited_releases(t) ==
    /\ http_pc[t] = "in_flight"
    /\ http_attempt[t] < http_max_retries - 1
    /\ request_start' = [request_start EXCEPT ![t] = 0]
    /\ request_semaphore' = request_semaphore + 1
    /\ http_pc' = [http_pc EXCEPT ![t] = "backoff_in_slot"]
    /\ UNCHANGED <<clock, last_request_time, rate_limit_lock,
                   http_attempt, wake_time, stamps, GateRest>>
RateLimited(t) ==
    /\ http_pc[t] = "in_flight"
    /\ http_attempt[t] < http_max_retries - 1
    /\ request_start' = [request_start EXCEPT ![t] = 0]
    /\ http_pc' = [http_pc EXCEPT ![t] = "backoff_in_slot"]
    /\ UNCHANGED <<clock, last_request_time, rate_limit_lock,
                   request_semaphore, http_attempt, wake_time, stamps,
                   GateRest>>

\* continue: the with block is left and the next attempt begins
RateLimitedContinue(t) ==
    /\ http_pc[t] = "backoff_in_slot"
    /\ request_semaphore' = request_semaphore + 1
    /\ http_attempt' = [http_attempt EXCEPT ![t] = @ + 1]
    /\ http_pc' = [http_pc EXCEPT ![t] = "attempt"]
    /\ UNCHANGED <<clock, last_request_time, rate_limit_lock, wake_time,
                   stamps, request_start, GateRest>>

\* requests.get or raise_for_status raises a RequestException: the with
\* block is left, then the handler sleeps or re-raises
RequestFails_keeps_slot(t) ==
    /\ http_pc[t] = "in_flight"
    /\ request_start' = [request_start EXCEPT ![t] = 0]
    /\ request_semaphore' = request_semaphore
    /\ http_pc' = [http_pc EXCEPT ![t] =
           IF http_attempt[t] < http_max_retries - 1 THEN "backoff"
                                                     ELSE "raised"]
    /\ UNCHANGED <<clock, last_request_time, rate_limit_lock, http_attempt,
                   wake_time, stamps, GateRest>>
RequestFails(t) ==
    /\ http_pc[t] = "in_flight"
    /\ request_start' = [request_start EXCEPT ![t] = 0]
    /\ request_semaphore' = request_semaphore + 1
    /\ http_pc' = [http_pc EXCEPT ![t] =
           IF http_attempt[t] < http_max_retries - 1 THEN "backoff"
                                                     ELSE "raised"]
    /\ UNCHANGED <<clock, last_request_time, rate_limit_lock, http_attempt,
                   wake_time, stamps, GateRest>>

\* the handler's time.sleep(delay) ends and the next attempt begins
HandlerSleepDone(t) ==
    /\ http_pc[t] = "backoff"
    /\ http_attempt' = [http_attempt EXCEPT ![t] = @ + 1]
    /\ http_pc' = [http_pc EXCEPT ![t] = "attempt"]
    /\ UNCHANGED <<clock, last_request_time, rate_limit_lock,
                   request_semaphore, wake_time, stamps, request_start, GateRest>>

RetryIdle ==
    /\ retry_site = "none"
    /\ retry_pc = "idle"
    /\ retry_attempt = 0
    /\ retry_delay = 0
    /\ calls = 0
    /\ last_error = NoError
    /\ raised_error = NoError

ExtractIdle ==
    /\ extract_input = [tool_papers |-> <<>>, assistant_papers |-> <<>>,
                        mentions |-> FALSE]
    /\ extract_output = NotExtracted

SortIdle ==
    /\ sections = <<>>
    /\ in_degree = EmptyMap
    /\ queue = <<>>
    /\ result = <<>>
    /\ sort_pc = "idle"
    /\ dependencies = DependencyTable

DedupIdle ==
    /\ dedup_response = NoResponse
    /\ final_json = EmptyMap

\* The graph enters the workers node with the parsed outline
Init ==
    /\ SortIdle
    /\ section_list = OutlineIds
    /\ task_pc = [i \in 1..NumSections |-> "pending"]
    /\ attempt = [i \in 1..NumSections |-> 0]
    /\ delay = [i \in 1..NumSections |-> 0]
    /\ agent_result = [i \in 1..NumSections |-> <<>>]
    /\ task_return = [i \in 1..NumSections |-> <<>>]
    /\ semaphore = max_concurrent
    /\ completed = <<>>
    /\ results = <<>>
    /\ section_files = EmptyMap
    /\ section_results = EmptyMap
    /\ phase = "workers"
    /\ DedupIdle
    /\ WriterIdle
    /\ RetryIdle
    /\ ExtractIdle
    /\ OtherIdle

Next ==
    \/ \E i \in Tasks : Acquire(i)
    \/ \E i \in Tasks : StartSleepDone(i)
    \/ \E i \in Tasks : \E r \in AgentResults : InvokeReturns(i, r)
    \/ \E i \in Tasks : \E e \in Errors : InvokeRaisesRetry(i, e)
    \/ \E i \in Tasks : \E e \in Errors : InvokeRaisesFail(i, e)
    \/ \E i \in Tasks : BackoffDone(i)
    \/ Gather
    \/ DedupAgentRespond(TinyResponses(section_list))
    \/ DedupApply

Spec == Init /\ [][Next]_vars

\* The fan-out alone, up to the return of gather, with one agent result
\* and one error of each class; the event loop runs every task that can
\* run, every sleep ends and every call returns or raises
FanOutResults ==
    { [tool_papers |-> <<>>, assistant_papers |-> <<PaperA, PaperB>>,
       mentions |-> TRUE] }
FanOutErrors == {e \in Errors : e.kind # "message_429" /\ ~ e.has_hint}

NextFanOut ==
    \/ \E i \in Tasks : Acquire(i)
    \/ \E i \in Tasks : StartSleepDone(i)
    \/ \E i \in Tasks : \E r \in FanOutResults : InvokeReturns(i, r)
    \/ \E i \in Tasks : \E e \in FanOutErrors : InvokeRaisesRetry(i, e)
    \/ \E i \in Tasks : \E e \in FanOutErrors : InvokeRaisesFail(i, e)
    \/ \E i \in Tasks : BackoffDone(i)
    \/ Gather

SpecFanOut == Init /\ [][NextFanOut]_vars /\ WF_vars(NextFanOut)

\* The node entered with the section_results of a finished fan-out
InitDedup ==
    /\ SortIdle
    /\ section_list = DedupSectionIds
    /\ \E n \in [Range(DedupSectionIds) -> 0..MaxPapers] :
          section_results = [sid \in Range(DedupSectionIds) |->
                                DedupPapers(sid, n[sid])]
    /\ task_pc = [i \in 1..Len(DedupSectionIds) |-> "done"]
    /\ attempt = [i \in 1..Len(DedupSectionIds) |-> 0]
    /\ delay = [i \in 1..Len(DedupSectionIds) |-> 0]
    /\ agent_result = [i \in 1..Len(DedupSectionIds) |-> <<>>]
    /\ task_return = [i \in 1..Len(DedupSectionIds) |->
                         <<DedupSectionIds[i],
                           section_results[DedupSectionIds[i]]>>]
    /\ semaphore = max_concurrent
    /\ completed = <<>>
    /\ results = task_return
    /\ section_files = section_results
    /\ phase = "deduplication"
    /\ DedupIdle
    /\ WriterIdle
    /\ RetryIdle
    /\ ExtractIdle
    /\ OtherIdle

NextDedup ==
    \/ DedupAgentRespond(RichResponses(section_list))
    \/ DedupApply

SpecDedup == InitDedup /\ [][NextDedup]_vars

\* topological_sort_sections called with a duplicate-free list
InitSort ==
    /\ sections \in InjSeqs(SortIds, MaxSortInput)
    /\ in_degree = EmptyMap
    /\ queue = <<>>
    /\ result = <<>>
    /\ sort_pc = "start"
    /\ dependencies = DependencyTable
    /\ WorkerIdle
    /\ DedupIdle
    /\ WriterIdle
    /\ RetryIdle
    /\ ExtractIdle
    /\ OtherIdle

NextSort == SortStart \/ SortLoop \/ SortFinish

SpecSort == InitSort /\ [][NextSort]_vars

\* write_all_sections called with a duplicate-free list of section ids and
\* an empty output directory
InitWrite ==
    /\ sections \in InjSeqs(BatchIds, MaxBatch)
    /\ in_degree = EmptyMap
    /\ queue = <<>>
    /\ result = <<>>
    /\ sort_pc = "start"
    /\ dependencies = DependencyTable
    /\ WorkerIdle
    /\ DedupIdle
    /\ enable_refinement \in BOOLEAN
    /\ sorted_sections = <<>>
    /\ batch_idx = 0
    /\ node = "idle"
    /\ cross_references = 0
    /\ related_sections_tex = {}
    /\ output_tex = TexEmpty
    /\ quality_report = NoReport
    /\ revision_count = 0
    /\ section_guidance = ""
    /\ batch_results = EmptyMap
    /\ tex_files = {}
    /\ visited = <<>>
    /\ RetryIdle
    /\ ExtractIdle
    /\ OtherIdle

NextWrite ==
    \/ SortStart
    \/ SortLoop
    \/ SortFinish
    \/ StartBatch
    \/ \E found \in BOOLEAN : \E n \in CrossRefCounts : PlanningNode(found, n)
    \/ \E outcome \in GenerationOutcomes : WritingNode(outcome)
    \/ ValidationNode
    \/ \E outcome \in GenerationOutcomes : RefinementNode(outcome)
    \/ RecordSection

SpecWrite == InitWrite /\ [][NextWrite]_vars

\* The graph runs are finite: every node that is enabled eventually runs
SpecWriteFair == SpecWrite /\ WF_vars(NextWrite)

\* One retry loop entered at its first attempt
InitRetry ==
    /\ SortIdle
    /\ WorkerIdle
    /\ DedupIdle
    /\ WriterIdle
    /\ retry_site \in RetrySites
    /\ retry_pc = "call"
    /\ retry_attempt = 0
    /\ retry_delay = 0
    /\ calls = 0
    /\ last_error = NoError
    /\ raised_error = NoError
    /\ ExtractIdle
    /\ OtherIdle

NextRetry ==
    \/ CallReturns
    \/ \E e \in Failures(retry_site) : CallFailsRetry(e)
    \/ \E e \in Failures(retry_site) : CallFailsRaise(e)
    \/ SleepDone

SpecRetry == InitRetry /\ [][NextRetry]_vars

\* topological_sort_sections over an arbitrary prerequisite mapping: the
\* table is an input, with cycles and prerequisites outside the input
MaxDeps == 2           \* most prerequisites of one id in the mapping
OutsideId == <<2,5,3>>
BoundedSubsets(S, n) == {T \in SUBSET S : Cardinality(T) <= n}

InitSortAny ==
    /\ sections \in InjSeqs(BatchIds, MaxSortInput)
    /\ dependencies \in
          [BatchIds -> BoundedSubsets(BatchIds \cup {OutsideId}, MaxDeps)]
    /\ in_degree = EmptyMap
    /\ queue = <<>>
    /\ result = <<>>
    /\ sort_pc = "start"
    /\ WorkerIdle
    /\ DedupIdle
    /\ WriterIdle
    /\ RetryIdle
    /\ ExtractIdle
    /\ OtherIdle

SpecSortAny == InitSortAny /\ [][NextSort]_vars

\* validation_node entered with a text drawn from a bounded space of
\* features; a text of length 0 is the empty text
MaxCitations == 3      \* most citation markers of a text
SampleLengths == {200, 1000, 60000}
Markers == {"\\section", "\\subsection", "\\label", "\\item",
            "\\begin{itemize}"}
QualityTexts ==
    {TexEmpty} \cup
    [length : SampleLengths, citation_count : 0..MaxCitations,
     section_count : {0, 1}, contains : SUBSET Markers,
     open_braces : {9}, close_braces : {8, 9},
     begin_count : {1}, end_count : {0, 1},
     unescaped : BOOLEAN, promotional : BOOLEAN]

InitQuality ==
    /\ SortIdle
    /\ WorkerIdle
    /\ DedupIdle
    /\ enable_refinement = TRUE
    /\ sorted_sections = <<>>
    /\ batch_idx = 0
    /\ node = "validation"
    /\ cross_references \in CrossRefCounts
    /\ related_sections_tex = {}
    /\ output_tex \in QualityTexts
    /\ quality_report = NoReport
    /\ revision_count = 0
    /\ section_guidance = ""
    /\ batch_results = EmptyMap
    /\ tex_files = {}
    /\ visited = <<"planning", "writing", "validation">>
    /\ RetryIdle
    /\ ExtractIdle
    /\ OtherIdle

NextQuality == ValidationNode

SpecQuality == InitQuality /\ [][NextQuality]_vars

\* search_research_papers is called: search_papers is at its first request
InitSearch ==
    /\ SortIdle
    /\ WorkerIdle
    /\ DedupIdle
    /\ WriterIdle
    /\ ExtractIdle
    /\ GateIdle
    /\ ParseIdle
    /\ CliIdle
    /\ retry_site = HttpSite
    /\ retry_pc = "call"
    /\ retry_attempt = 0
    /\ retry_delay = 0
    /\ calls = 0
    /\ last_error = NoError
    /\ raised_error = NoError
    /\ search_pc = "esearch"
    /\ pmids = 0
    /\ search_caught = "none"
    /\ search_return = NotReturned
    /\ tool_return = NotReturned

NextSearch ==
    \/ CallReturns
    \/ \E e \in Failures(HttpSite) : CallFailsRetry(e)
    \/ \E e \in Failures(HttpSite) : CallFailsRaise(e)
    \/ SleepDone
    \/ RequestRaises
    \/ \E body \in EsearchBodies : EsearchResponse(body)
    \/ \E body \in EfetchBodies(pmids) : EfetchResponse(body)
    \/ ToolReturns

SpecSearch == InitSearch /\ [][NextSearch]_vars

\* every thread calls _make_request_with_retry once
InitGate ==
    /\ SortIdle
    /\ WorkerIdle
    /\ DedupIdle
    /\ WriterIdle
    /\ RetryIdle
    /\ ExtractIdle
    /\ ParseIdle
    /\ CliIdle
    /\ SearchIdle
    /\ clock = StartTime
    /\ last_request_time = 0
    /\ rate_limit_lock = 0
    /\ request_semaphore = max_concurrent_requests
    /\ http_pc = [t \in HttpThreads |-> "attempt"]
    /\ http_attempt = [t \in HttpThreads |-> 0]
    /\ wake_time = [t \in HttpThreads |-> 0]
    /\ stamps = <<>>
    /\ request_start = [t \in HttpThreads |-> 0]

NextGate ==
    \/ Tick
    \/ \E t \in HttpThreads : AcquireSlot(t)
    \/ \E t \in HttpThreads : RateLimitEnter(t)
    \/ \E t \in HttpThreads : RateLimitExit(t)
    \/ \E t \in HttpThreads : SendRequest(t)
    \/ \E t \in HttpThreads : RequestReturns(t)
    \/ \E t \in HttpThreads : RateLimited(t)
    \/ \E t \in HttpThreads : RateLimitedContinue(t)
    \/ \E t \in HttpThreads : RequestFails(t)
    \/ \E t \in HttpThreads : HandlerSleepDone(t)

SpecGate == InitGate /\ [][NextGate]_vars

\* parse_regulation_file on a bounded outline
SampleTitle == <<"T", "i", "t", "l", "e">>

RECURSIVE Dotted(_)
Dotted(k) ==
    IF k = 1 THEN <<"5">>
    ELSE IF k = 2 THEN Dotted(1) \o <<".", "3">>
    ELSE Dotted(k - 1) \o <<".", "1">>

SampleLines ==
    { Dotted(k) \o <<" ">> \o SampleTitle : k \in 1..MaxInts }
    \cup { <<>>, <<" ">>,
           <<"s", "o", "m", "e", " ", "t", "e", "x", "t">>,
           Dotted(3),
           Dotted(3) \o SampleTitle,
           Dotted(3) \o <<".", " ">> \o SampleTitle,
           <<" ", " ">> \o Dotted(4) \o <<" ", " ">> \o SampleTitle
                        \o <<" ">>,
           <<"1", "5", ".", "3", ".", "2", "0", " ">> \o SampleTitle }

InitParse ==
    /\ SortIdle
    /\ WorkerIdle
    /\ DedupIdle
    /\ WriterIdle
    /\ RetryIdle
    /\ ExtractIdle
    /\ GateIdle
    /\ CliIdle
    /\ SearchIdle
    /\ outline \in UNION {[1..n -> SampleLines] : n \in 1..MaxLines}
    /\ line_idx = 1
    /\ parsed_sections = <<>>
    /\ current_section_id = None
    /\ current_section_title = None
    /\ current_description = <<>>
    /\ parse_pc = "loop"

NextParse == ParseLine \/ ParseFinish

SpecParse == InitParse /\ [][NextParse]_vars

\* main of the section writer in batch mode and in single section mode
InitCli ==
    /\ cli_mode \in {"batch", "single", "generate_main"}
    /\ papers_exists \in BOOLEAN
    /\ exit_status = NotExited
    /\ main_tex = NoMainTex
    /\ sections \in InjSeqs(BatchIds, MaxBatch)
    /\ cli_mode = "single" => Len(sections) = 1
    /\ cli_mode = "generate_main" => sections = <<>>
    /\ in_degree = EmptyMap
    /\ queue = <<>>
    /\ result = <<>>
    /\ sort_pc = "start"
    /\ dependencies = DependencyTable
    /\ WorkerIdle
    /\ DedupIdle
    /\ enable_refinement \in BOOLEAN
    /\ sorted_sections = <<>>
    /\ batch_idx = 0
    /\ node = "idle"
    /\ cross_references = 0
    /\ related_sections_tex = {}
    /\ output_tex = TexEmpty
    /\ quality_report = NoReport
    /\ revision_count = 0
    /\ section_guidance = ""
    /\ batch_results = EmptyMap
    /\ tex_files = {}
    /\ visited = <<>>
    /\ RetryIdle
    /\ ExtractIdle
    /\ GateIdle
    /\ ParseIdle
    /\ SearchIdle

GraphNode ==
    \/ \E found \in BOOLEAN : \E n \in CrossRefCounts : PlanningNode(found, n)
    \/ \E outcome \in GenerationOutcomes : WritingNode(outcome)
    \/ ValidationNode
    \/ \E outcome \in GenerationOutcomes : RefinementNode(outcome)

NextCli ==
    \/ MainBatchAborts
    \/ /\ cli_mode = "batch" /\ papers_exists
       /\ \/ SortStart
          \/ SortLoop
          \/ SortFinish
          \/ StartBatch
          \/ RecordSection
          \/ GraphNode
    \/ MainBatchExit
    \/ MainSingleMissing
    \/ MainSingleInvoke
    \/ cli_mode = "single" /\ GraphNode
    \/ MainSingleExit
    \/ MainGenerateMain

SpecCli == InitCli /\ [][NextCli]_vars

\* --all: write_all_sections on its default list of sections
InitDefault ==
    /\ cli_mode = "batch"
    /\ papers_exists = TRUE
    /\ exit_status = NotExited
    /\ main_tex = NoMainTex
    /\ sections = DefaultSections
    /\ in_degree = EmptyMap
    /\ queue = <<>>
    /\ result = <<>>
    /\ sort_pc = "start"
    /\ dependencies = DependencyTable
    /\ WorkerIdle
    /\ DedupIdle
    /\ enable_refinement \in BOOLEAN
    /\ sorted_sections = <<>>
    /\ batch_idx = 0
    /\ node = "idle"
    /\ cross_references = 0
    /\ related_sections_tex = {}
    /\ output_tex = TexEmpty
    /\ quality_report = NoReport
    /\ revision_count = 0
    /\ section_guidance = ""
    /\ batch_results = EmptyMap
    /\ tex_files = {}
    /\ visited = <<>>
    /\ RetryIdle
    /\ ExtractIdle
    /\ GateIdle
    /\ ParseIdle
    /\ SearchIdle

NextDefault ==
    \/ SortStart
    \/ SortLoop
    \/ SortFinish
    \/ StartBatch
    \/ \E outcome \in InvokeOutcomes : GraphInvoke(outcome)
    \/ RecordSection
    \/ MainBatchExit

SpecDefault == InitDefault /\ [][NextDefault]_vars

\* extract_papers_from_result called on a bounded agent result
InitExtract ==
    /\ SortIdle
    /\ WorkerIdle
    /\ DedupIdle
    /\ WriterIdle
    /\ RetryIdle
    /\ extract_input \in
          [tool_papers : SeqsUpTo(SamplePapers, MaxExtract),
           assistant_papers : SeqsUpTo(SamplePapers, MaxExtract),
           mentions : {FALSE}]
    /\ extract_output = NotExtracted
    /\ OtherIdle

NextExtract == ExtractPapers

SpecExtract == InitExtract /\ [][NextExtract]_vars



\* ========================================================================
\* Properties
\* ========================================================================

\* The position of an id in a list (0 when absent)
PositionIn(lst, x) ==
    IF \E i \in 1..Len(lst) : lst[i] = x
    THEN CHOOSE i \in 1..Len(lst) : lst[i] = x /\ \A j \in 1..(i - 1) : lst[j] # x
    ELSE 0

\* A paper without its cross-link annotation
Base(paper) == [k \in DOMAIN paper \ {"also_relevant_to"} |-> paper[k]]

BaseAll(papers) == [i \in 1..Len(papers) |-> Base(papers[i])]

\* lst without the elements at the 0-based indices in S, order kept
RECURSIVE WithoutIndices(_, _, _)
WithoutIndices(lst, S, at) ==
    IF lst = <<>> THEN <<>>
    ELSE IF at \in S THEN WithoutIndices(Tail(lst), S, at + 1)
    ELSE <<Head(lst)>> \o WithoutIndices(Tail(lst), S, at + 1)

\* The response carries an also_relevant key that int() rejects
HasNonIntKey(response) ==
    \E sid \in DOMAIN response.also_relevant :
        \E k \in 1..Len(response.also_relevant[sid]) :
            ~ ParseInt(response.also_relevant[sid][k][1]).ok

\* The node ran its try block to the end
NormalPath ==
    /\ phase = "end"
    /\ dedup_response.kind \in {"instruction", "unparseable"}
    /\ ~ HasNonIntKey(dedup_response)

OriginalCount(sid) == Len(Get(section_results, sid, <<>>))

\* C1: for every duplicate-free input list, in the returned order every
\* declared prerequisite p of an id, with both in the input, stands at a
\* strictly earlier position than the id.
C1_PrerequisitesFirst ==
    sort_pc = "done" =>
        \A id \in Range(sections) :
            \A p \in get_section_dependencies(id) \cap Range(sections) :
                /\ PositionIn(result, id) > 0
                /\ PositionIn(result, p) > 0
                /\ PositionIn(result, p) < PositionIn(result, id)

\* An input that lists an id before its prerequisite, sorted
C1_Witness ==
    /\ sort_pc = "done"
    /\ \E id \in Range(sections) :
          \E p \in get_section_dependencies(id) \cap Range(sections) :
              /\ PositionIn(sections, id) < PositionIn(sections, p)
              /\ PositionIn(result, p) < PositionIn(result, id)

\* The tasks between acquiring and releasing the semaphore
Holding == {i \in Tasks : task_pc[i] \in {"start_delay", "invoking", "backoff"}}

\* C2: in every reachable state of the fan-out at most max_concurrent tasks
\* are between acquiring and releasing the semaphore.
C2_AtMostMaxConcurrent == Cardinality(Holding) <= max_concurrent

\* Two tasks hold the semaphore, one of them in a backoff sleep, while a
\* third waits for it
C2_Witness ==
    /\ Cardinality(Holding) = max_concurrent
    /\ \E i \in Tasks : task_pc[i] = "backoff"
    /\ \E i \in Tasks : task_pc[i] = "pending"

\* C3: after the fan-out there is exactly one outcome per input section, the
\* i-th outcome is the one the i-th section's task returned and carries that
\* section's id, and section_results holds exactly one entry per section.
C3_OutcomesInInputOrder ==
    phase \in {"deduplication", "agent_returned", "end"} =>
        /\ Len(results) = Len(section_list)
        /\ \A i \in 1..Len(section_list) :
              /\ results[i][1] = section_list[i]
              /\ results[i] = task_return[i]
              /\ section_results[section_list[i]] = results[i][2]
        /\ DOMAIN section_results = Range(section_list)

\* The tasks finished in an order other than the input order
C3_Witness ==
    /\ phase = "deduplication"
    /\ \E a, b \in 1..Len(completed) : a < b /\ completed[a] > completed[b]
    /\ \E i \in Tasks : results[i][2] # <<>>

\* The step in which task i fails: ainvoke raised and the error was not
\* retried
FailureStep(i) ==
    /\ task_pc[i] = "invoking"
    /\ task_pc'[i] = "done"
    /\ agent_result'[i] = <<>>

\* C4: a failing section task yields an empty paper list and leaves every
\* other task as it was; a task only finishes out of its own ainvoke, and
\* after the fan-out every section holds the outcome of its own task.
C4_FailureIsLocal ==
    /\ [][\A i \in Tasks :
            /\ FailureStep(i) =>
                  /\ task_return'[i] = <<section_list[i], <<>>>>
                  /\ \A j \in Tasks \ {i} :
                        /\ task_pc'[j] = task_pc[j]
                        /\ task_return'[j] = task_return[j]
                        /\ agent_result'[j] = agent_result[j]
            /\ (task_pc[i] # "done" /\ task_pc'[i] = "done")
                  => task_pc[i] = "invoking"]_vars
    /\ [](phase \in {"deduplication", "agent_returned", "end"} =>
            \A i \in Tasks :
                section_results[section_list[i]] =
                    IF agent_result[i] = <<>> THEN <<>>
                    ELSE ProcessResult(agent_result[i][1]))

\* A task failed first and a sibling finished after it with papers
C4_Witness ==
    /\ phase = "deduplication"
    /\ \E a, b \in 1..Len(completed) :
          /\ a < b
          /\ agent_result[completed[a]] = <<>>
          /\ agent_result[completed[b]] # <<>>
          /\ section_results[section_list[completed[a]]] = <<>>
          /\ section_results[section_list[completed[b]]] # <<>>

\* C5: on the normal path every section's emitted sequence is the original
\* sequence without the papers at the instructed in-range indices, the
\* survivors in their original order, whatever the order or repetition of
\* the indices; negative indices and indices >= the length are ignored.
C5_RemovalsByOriginalIndex ==
    NormalPath =>
        \A sid \in Range(section_list) :
            BaseAll(final_json.sections[sid]) =
                WithoutIndices(BaseAll(Get(section_results, sid, <<>>)),
                               Range(RemovalsFor(dedup_response.removals, sid)),
                               0)

\* removals [2,0] on three papers leave the paper originally at index 1
C5_Witness ==
    /\ NormalPath
    /\ \E sid \in Range(section_list) :
          /\ Len(section_results[sid]) = 3
          /\ RemovalsFor(dedup_response.removals, sid) = <<2, 0>>
          /\ BaseAll(final_json.sections[sid]) = <<section_results[sid][2]>>

\* C6: an also_relevant item addressed to (section, i) annotates the paper
\* that stood at index i of the section's original sequence and no other
\* paper: every annotated paper of the emitted section is the original
\* occupant of an addressed index.
C6_AnnotatesAddressedPaper ==
    NormalPath =>
        \A sid \in Range(section_list) :
            \A k \in 1..Len(final_json.sections[sid]) :
                "also_relevant_to" \in DOMAIN final_json.sections[sid][k] =>
                    \E n \in 1..Len(AlsoRelevantFor(
                                      dedup_response.also_relevant, sid)) :
                        LET parsed == ParseInt(AlsoRelevantFor(
                                 dedup_response.also_relevant, sid)[n][1])
                        IN  /\ parsed.ok
                            /\ parsed.val < Len(section_results[sid])
                            /\ Base(final_json.sections[sid][k]) =
                                   section_results[sid][parsed.val + 1]

AllValid(papers) == \A i \in 1..Len(papers) : is_valid_paper(papers[i])

\* C7: every paper written to a per-section result file or to the combined
\* deduplicated file is valid.
C7_PersistedPapersValid ==
    /\ \A sid \in DOMAIN section_files : AllValid(section_files[sid])
    /\ phase = "end" =>
          \A sid \in DOMAIN final_json.sections :
              AllValid(final_json.sections[sid])

\* The emitted structure is the unreconciled input with zero counts
Unreconciled ==
    /\ \A sid \in Range(section_list) :
          final_json.sections[sid] = Get(section_results, sid, <<>>)
    /\ final_json.duplicates_found = 0
    /\ final_json.papers_removed = 0

\* C8: when the classifier call raises, its response cannot be parsed, or
\* applying the instruction raises part-way, the node still returns and the
\* result is the unreconciled input: every section's original papers in
\* order, none removed, none annotated, both counts zero.
C8_FailureEmitsUnreconciled ==
    (/\ phase = "end"
     /\ \/ dedup_response.kind \in {"raise", "unparseable"}
        \/ HasNonIntKey(dedup_response))
    => Unreconciled

\* C9: an instruction with empty removals and empty also_relevant returns
\* every section's sequence unchanged, total_unique_papers = total_mentions
\* and papers_removed = 0.
C9_EmptyInstructionIsIdentity ==
    (/\ phase = "end"
     /\ dedup_response.kind = "instruction"
     /\ dedup_response.removals = EmptyMap
     /\ dedup_response.also_relevant = EmptyMap)
    => /\ \A sid \in Range(section_list) :
             final_json.sections[sid] = Get(section_results, sid, <<>>)
       /\ final_json.total_unique_papers = final_json.total_mentions
       /\ final_json.papers_removed = 0

C9_Witness ==
    /\ phase = "end"
    /\ dedup_response.kind = "instruction"
    /\ dedup_response.removals = EmptyMap
    /\ dedup_response.also_relevant = EmptyMap
    /\ \A sid \in Range(section_list) : Len(section_results[sid]) > 0
    /\ final_json.total_unique_papers = SumOver(section_list,
           [sid \in Range(section_list) |-> OriginalCount(sid)])

\* C10: in every result of the node total_mentions is the sum of the
\* original per-section counts, total_unique_papers is the sum of the emitted
\* per-section counts and of papers_by_section, and
\* total_unique_papers = total_mentions - papers_removed.
C10_SummaryCounts ==
    phase = "end" =>
        /\ final_json.total_mentions =
               SumOver(section_list,
                   [sid \in Range(section_list) |-> OriginalCount(sid)])
        /\ final_json.total_unique_papers =
               SumOver(section_list,
                   [sid \in Range(section_list) |->
                       Len(final_json.sections[sid])])
        /\ final_json.total_unique_papers =
               SumOver(section_list, final_json.papers_by_section)
        /\ final_json.total_unique_papers =
               final_json.total_mentions - final_json.papers_removed

\* A removals list with one in-range and one out-of-range index was applied
C10_Witness ==
    /\ NormalPath
    /\ final_json.papers_removed = 1
    /\ \E sid \in DOMAIN dedup_response.removals :
          /\ Len(dedup_response.removals[sid]) = 2
          /\ \E k \in 1..2 :
                dedup_response.removals[sid][k] >= Len(section_results[sid])
          /\ \E k \in 1..2 :
                /\ dedup_response.removals[sid][k] >= 0
                /\ dedup_response.removals[sid][k] < Len(section_results[sid])

\* ------------------------------------------------------------------------
\* The section writing graph
\* ------------------------------------------------------------------------
Count(v, x) == Cardinality({i \in 1..Len(v) : v[i] = x})

NeedsRefinement(report) ==
    \/ ~ report.is_valid
    \/ report.score < 70
    \/ report.latex_errors # {}

\* C11 as stated: after a validation pass the pipeline moves to refining if
\* and only if revision_count < 2 and the report is not valid, or scores
\* below 70, or has structural errors; otherwise it moves to done
C11_RefinesIffNeeded ==
    [][node = "validation" =>
          /\ node' \in {"refinement", "END"}
          /\ node' = "refinement" <=>
                (revision_count < 2 /\ NeedsRefinement(quality_report'))]_vars

\* C11 amended: the same holds in a graph built with refinement enabled; in
\* a graph built without it every validation pass is followed by done
C11_RefinesIffNeededAndEnabled ==
    [][node = "validation" =>
          /\ node' \in {"refinement", "END"}
          /\ node' = "refinement" <=>
                (/\ enable_refinement
                 /\ revision_count < 2
                 /\ NeedsRefinement(quality_report'))]_vars

C11_Witness ==
    /\ node = "refinement"
    /\ quality_report.score = 50
    /\ revision_count = 0
    /\ section_guidance = ""

\* C12: whatever the refinement call returns or raises, a run that has
\* reached validation reaches the end after at most 2 refinement passes and
\* 3 validation passes with revision_count <= 2, every refinement pass
\* adding exactly one to revision_count
C12_RefinementLoopBounded ==
    /\ [](/\ Count(visited, "refinement") <= 2
          /\ Count(visited, "validation") <= 3
          /\ revision_count <= 2)
    /\ [][node = "refinement" => revision_count' = revision_count + 1]_vars
    /\ [](node = "validation" => <>(node = "END"))

C12_Witness ==
    /\ node = "END"
    /\ revision_count = 2
    /\ Count(visited, "refinement") = 2
    /\ Count(visited, "validation") = 3

\* C13: a run enters planning, writing, validation, then any number of
\* (refinement, validation) pairs, then the end; planning and writing run
\* once, validation follows every refinement and the end is entered from
\* validation only
C13_PhasePattern ==
    /\ node \in {"planning", "writing", "validation", "refinement", "END",
                 "raised"}
          => visited # <<>> /\ visited[Len(visited)] = node
    /\ \A i \in 1..Len(visited) :
          /\ i = 1 <=> visited[i] = "planning"
          /\ i = 2 <=> visited[i] = "writing"
          /\ i = 3 => visited[i] \in {"validation", "raised"}
          /\ visited[i] = "validation" /\ i > 3
                => visited[i - 1] = "refinement"
          /\ visited[i] = "refinement"
                => /\ visited[i - 1] = "validation"
                   /\ i < Len(visited) => visited[i + 1] = "validation"
          /\ visited[i] = "END"
                => i = Len(visited) /\ visited[i - 1] = "validation"
          /\ visited[i] = "raised" => i = Len(visited)

C13_Witness ==
    visited = <<"planning", "writing", "validation", "refinement",
                "validation", "refinement", "validation", "END">>

\* ------------------------------------------------------------------------
\* Batch writing
\* ------------------------------------------------------------------------
\* The prerequisites the table declares for the section the loop is at,
\* restricted to the batch
BatchPrerequisites ==
    {d \in DependencyTable[sorted_sections[batch_idx]] :
        d \in Range(sorted_sections)}

Processed == {sorted_sections[k] : k \in 1..(batch_idx - 1)}

C15_EveryUnitRecorded ==
    /\ [](node = "finished" =>
             /\ DOMAIN batch_results = Range(sorted_sections)
             /\ \A s \in DOMAIN batch_results :
                   batch_results[s].status \in {"success", "failed"})
    /\ [][(node = "raised" \/ (node = "END" /\ output_tex.length = 0)) =>
             /\ batch_results'[sorted_sections[batch_idx]].status = "failed"
             /\ batch_idx < Len(sorted_sections)
                   => /\ batch_idx' = batch_idx + 1
                      /\ node' = "planning"]_vars

C15_Witness ==
    /\ node = "finished"
    /\ sorted_sections = << <<2,5,1>>, <<2,5,2>> >>
    /\ batch_results[<<2,5,1>>].status = "failed"
    /\ <<2,5,2>> \in DOMAIN batch_results

\* ------------------------------------------------------------------------
\* The retry loops
\* ------------------------------------------------------------------------
\* C16: the generation call is made at most max_retries (5) times and an
\* HTTP request at most http_max_retries (3) times; when the loop gives up,
\* what it raises is the error of its last call
C16_BoundedCallsLastErrorRaised ==
    /\ retry_site \in GenerationSites => calls <= max_retries
    /\ retry_site = HttpSite => calls <= http_max_retries
    /\ retry_pc = "raised" =>
          /\ last_error # NoError
          /\ raised_error = last_error

C16_Witness ==
    /\ retry_pc = "raised"
    /\ retry_site = "writing_node"
    /\ calls = max_retries
    /\ is_rate_limit(raised_error)

\* The retry-after duration the error message names, 0 when it names none
Hint(e) == IF e.has_hint THEN e.seconds ELSE 0

\* C17 as stated: after a rate-limit failure with retries left the sleep is
\* max(hint, base_delay * 2^attempt), hence never below base_delay *
\* 2^attempt (delays in half seconds)
C17_SleepIsMaxOfHintAndBackoff ==
    retry_pc = "sleep" /\ retry_site \in GenerationSites =>
       /\ retry_delay = Max(2 * Hint(last_error),
                            2 * base_delay * Pow2(retry_attempt))
       /\ retry_delay >= 2 * base_delay * Pow2(retry_attempt)

\* C17 amended: the sleep is hint + 1 s when the error was recognised by
\* its message and the message names a duration, and base_delay *
\* 2^attempt otherwise
C17_SleepIsHintPlusOneOrBackoff ==
    retry_pc = "sleep" /\ retry_site \in GenerationSites =>
       retry_delay =
          IF last_error.kind = "message_429" /\ last_error.has_hint
          THEN 2 * (last_error.seconds + 1)
          ELSE 2 * base_delay * Pow2(retry_attempt)

C17_Witness ==
    /\ retry_pc = "sleep"
    /\ retry_site = "process_section"
    /\ last_error.kind = "message_429"
    /\ last_error.has_hint
    /\ retry_attempt = 2
    /\ retry_delay < 2 * base_delay * Pow2(retry_attempt)

\* ------------------------------------------------------------------------
\* The ordering, step by step
\* ------------------------------------------------------------------------
\* The ids not yet emitted whose prerequisites in the input are all emitted
Ready(emitted) ==
    {s \in Range(sections) \ Range(emitted) :
        \A d \in graph(s) : d \in Range(sections) => d \in Range(emitted)}

\* C18: every step of the loop emits the smallest, in string order, of the
\* ids that are ready, those that became ready at the previous step included
C18_EmitsSmallestReady ==
    [][sort_pc = "loop" /\ sort_pc' = "loop" =>
          \E x \in Ready(result) :
             /\ result' = Append(result, x)
             /\ \A y \in Ready(result) : y = x \/ StrLess(x, y)]_vars

C18_Witness ==
    /\ sort_pc = "loop"
    /\ Len(result) >= 2
    /\ result[Len(result) - 1] \in graph(result[Len(result)])
    /\ \E y \in Range(queue) :
          y \in Ready(SubSeq(result, 1, Len(result) - 2))

\* C19: for any prerequisite mapping the ordering ends with every input id
\* exactly once; the ids the loop could not emit follow the emitted ones in
\* their input order
C19_AnomaliesAppendedInInputOrder ==
    /\ [](Len(result) <= Len(sections))
    /\ [](sort_pc = "done" =>
             /\ Len(result) = Len(sections)
             /\ Range(result) = Range(sections))
    /\ [][sort_pc = "loop" /\ sort_pc' = "done" =>
             /\ SubSeq(result', 1, Len(result)) = result
             /\ \A i, j \in (Len(result) + 1)..Len(result') :
                   i < j => PositionIn(sections, result'[i])
                            < PositionIn(sections, result'[j])]_vars

Unemitted == {s \in Range(sections) : in_degree[s] > 0}

C19_Witness ==
    /\ sort_pc = "done"
    /\ Len(sections) = 3
    /\ Cardinality(Unemitted) = 2
    /\ \E a, b \in Unemitted :
          /\ a \in graph(b) /\ b \in graph(a)
          /\ StrLess(b, a)
          /\ PositionIn(result, a) < PositionIn(result, b)

\* ------------------------------------------------------------------------
\* extract_papers_from_result
\* ------------------------------------------------------------------------
\* C20: every returned paper has a title that is present and no placeholder
\* and a url that is present, no placeholder and starts with "http",
\* whichever candidate list was selected; a real title with an https url is
\* accepted
C20_ExtractedPapersValid ==
    extract_output.done =>
       /\ \A i \in 1..Len(extract_output.papers) :
             LET paper == extract_output.papers[i]
             IN  /\ "title" \in DOMAIN paper
                 /\ Strip(paper.title) \notin Placeholders
                 /\ "url" \in DOMAIN paper
                 /\ Strip(paper.url) \notin Placeholders
                 /\ StartsWith(Strip(paper.url), Http)
       /\ \A c \in {extract_input.tool_papers, extract_input.assistant_papers} :
             (/\ PaperA \in Range(c)
              /\ \A i \in 1..Len(c) : c[i].title = TitleStudy
              /\ extract_input.assistant_papers \in {c, <<>>})
             => \E i \in 1..Len(extract_output.papers) :
                   extract_output.papers[i].url = UrlA

C20_Witness ==
    /\ extract_output.done
    /\ extract_input.assistant_papers = <<PaperDots>>
    /\ extract_input.tool_papers = <<PaperNoTitle, PaperA>>
    /\ extract_output.papers = <<PaperA>>

\* The selected candidate of the call and its first record of a given url
Candidate == SelectCandidate(extract_input)

FirstWithUrl(c, u) ==
    c[CHOOSE j \in 1..Len(c) :
         /\ c[j].url = u
         /\ \A k \in 1..(j - 1) : c[k].url # u]

FirstPosition(c, p) ==
    CHOOSE j \in 1..Len(c) : c[j] = p /\ \A k \in 1..(j - 1) : c[k] # p

\* Url deduplication of the list c into the list out: no url twice, every
\* kept record the first of its url in c, kept records in the order of c
DeduplicatedFrom(out, c) ==
    /\ \A i, j \in 1..Len(out) : i # j => out[i].url # out[j].url
    /\ \A i \in 1..Len(out) :
          /\ \E j \in 1..Len(c) : c[j].url = out[i].url
          /\ out[i] = FirstWithUrl(c, out[i].url)
    /\ \A i, j \in 1..Len(out) :
          i < j => FirstPosition(c, out[i]) < FirstPosition(c, out[j])

\* C21 as stated: the returned list has no url twice, the record kept for a
\* url is the first one of the selected candidate and the kept records are
\* in the candidate's order
C21_FirstOfCandidateKept ==
    extract_output.done => DeduplicatedFrom(extract_output.papers, Candidate)

\* C21 amended: the same with respect to the valid records of the selected
\* candidate: the record kept for a url is the first valid one
C21_FirstValidOfCandidateKept ==
    extract_output.done =>
       DeduplicatedFrom(extract_output.papers,
                        SelectSeq(Candidate, is_valid_paper))

C21_Witness ==
    /\ extract_output.done
    /\ extract_input.assistant_papers = <<>>
    /\ extract_input.tool_papers = <<PaperA, PaperA2>>
    /\ extract_output.papers = <<PaperA>>

\* Every string field of every record is something else than a placeholder
NoPlaceholderField(c) ==
    \A i \in 1..Len(c) : \A k \in DOMAIN c[i] :
        Strip(c[i][k]) \notin Placeholders

\* Some record has a field that is no placeholder and longer than 3
SomeRealField(c) ==
    \E i \in 1..Len(c) : \E k \in DOMAIN c[i] :
        Strip(c[i][k]) \notin Placeholders /\ Len(Strip(c[i][k])) > 3

ValidUrls(c) == {c[i].url : i \in {j \in 1..Len(c) : is_valid_paper(c[j])}}

\* The returned papers are the valid records of c, one per url
ReturnedFrom(c) ==
    /\ Range(extract_output.papers) \subseteq Range(c)
    /\ {extract_output.papers[i].url : i \in 1..Len(extract_output.papers)}
          = ValidUrls(c)

\* C22: the text-sourced candidate is taken when it is non-empty and free
\* of placeholder fields; else the tool-sourced one when it is non-empty and
\* has a field with real content; else the text-sourced one without its
\* invalid records; else the tool-sourced one as it is
C22_SelectionPriority ==
    extract_output.done =>
       LET text == extract_input.assistant_papers
           tool == extract_input.tool_papers
       IN  IF text # <<>> /\ NoPlaceholderField(text)
           THEN ReturnedFrom(text)
           ELSE IF tool # <<>> /\ SomeRealField(tool)
           THEN ReturnedFrom(tool)
           ELSE IF text # <<>>
           THEN ReturnedFrom(text)
           ELSE ReturnedFrom(tool)

C22_Witness ==
    /\ extract_output.done
    /\ extract_input.assistant_papers = <<PaperDots, PaperB>>
    /\ extract_input.tool_papers = <<PaperA>>
    /\ extract_output.papers = <<PaperA>>

\* ------------------------------------------------------------------------
\* The quality rubric
\* ------------------------------------------------------------------------
Validated == node \in {"refinement", "END"} /\ visited[Len(visited) - 1] = "validation"

UnbalancedBraces(t) == t.open_braces # t.close_braces
UnbalancedEnvironments(t) == t.begin_count # t.end_count
ItemOutsideList(t) ==
    /\ "\\item" \in t.contains
    /\ "\\begin{itemize}" \notin t.contains
    /\ "\\begin{enumerate}" \notin t.contains

\* C23 as stated: the report is valid if and only if score >= 60 and the
\* text has no begin/end imbalance and no item outside a list environment
C23_ValidIffScoreAndEnvironments ==
    Validated =>
       (quality_report.is_valid <=>
           /\ quality_report.score >= 60
           /\ ~ UnbalancedEnvironments(output_tex)
           /\ ~ ItemOutsideList(output_tex))

\* C23 amended: the report is valid if and only if score >= 60 and the
\* text has balanced braces, no begin/end imbalance and no item outside a
\* list environment
C23_ValidIffScoreAndNoLatexError ==
    Validated =>
       (quality_report.is_valid <=>
           /\ quality_report.score >= 60
           /\ ~ UnbalancedBraces(output_tex)
           /\ ~ UnbalancedEnvironments(output_tex)
           /\ ~ ItemOutsideList(output_tex))

C23_Witness ==
    /\ Validated
    /\ UnbalancedBraces(output_tex)
    /\ ~ UnbalancedEnvironments(output_tex)
    /\ ~ ItemOutsideList(output_tex)
    /\ quality_report.score = 80
    /\ ~ quality_report.is_valid

Penalty(violated, points) == IF violated THEN points ELSE 0

\* The penalties of the listed rules for a text t
ListedPenalties(t, expected) ==
    Penalty(t.length < min_length, 20)
    + Penalty(t.length > max_length, 10)
    + Penalty(t.citation_count < expected, 15)
    + Penalty(t.section_count < min_sections, 15)
    + Penalty("\\section" \notin t.contains, 10)
    + Penalty("\\label" \notin t.contains, 10)
    + Penalty("\\section" \in t.contains /\ "\\label" \notin t.contains, 10)
    + Penalty(UnbalancedBraces(t), 20)
    + Penalty(UnbalancedEnvironments(t), 15)
    + Penalty(ItemOutsideList(t), 10)
    + Penalty(t.promotional, 10)

ScoreIs(penalties) ==
    /\ quality_report.score \in 0..100
    /\ IF output_tex.length = 0
       THEN quality_report.score = 0 /\ ~ quality_report.is_valid
       ELSE quality_report.score = Max(0, 100 - penalties)

\* C24 as stated: the score of a non-empty text is max(0, 100 - the
\* penalties of the violated listed rules), it lies in 0..100, and the
\* empty text scores 0 and is invalid
C24_ScoreIsListedPenalties ==
    Validated =>
       ScoreIs(ListedPenalties(output_tex,
                               ExpectedCitations(cross_references)))

\* C24 amended: the same with one more rule, an unescaped special character
\* (one of % & $ # _) in the first 1000 characters, which costs 5
C24_ScoreIsListedPenaltiesAndUnescaped ==
    Validated =>
       ScoreIs(ListedPenalties(output_tex,
                               ExpectedCitations(cross_references))
               + Penalty(output_tex.unescaped, 5))

C24_Witness ==
    /\ Validated
    /\ output_tex.unescaped
    /\ quality_report.score = 95
    /\ quality_report.is_valid

\* Below the minimum length, one section marker, no label, no citation
ShortUnlabelledUncited(t) ==
    /\ t.length > 0 /\ t.length < min_length
    /\ t.section_count = 1
    /\ "\\label" \notin t.contains
    /\ t.citation_count = 0

\* C25 as stated: such a text scores at most 40 and is not valid
C25_ShortTextAtMost40 ==
    Validated /\ ShortUnlabelledUncited(output_tex) =>
       quality_report.score <= 40 /\ ~ quality_report.is_valid

\* C25 amended: such a text scores at most 45 and is not valid
C25_ShortTextAtMost45 ==
    Validated /\ ShortUnlabelledUncited(output_tex) =>
       quality_report.score <= 45 /\ ~ quality_report.is_valid

C25_Witness ==
    /\ Validated
    /\ ShortUnlabelledUncited(output_tex)
    /\ quality_report.score = 45
    /\ ~ quality_report.is_valid

\* ------------------------------------------------------------------------
\* The rate gate and the request semaphore
\* ------------------------------------------------------------------------
InFlight == {t \in HttpThreads : http_pc[t] = "in_flight"}

Spaced(times) ==
    \A i, j \in 1..Len(times) :
        i < j => times[j] - times[i] >= min_request_interval

\* C26 as stated: any two passes through the rate gate record timestamps at
\* least the minimum interval apart, and no two HTTP requests start closer
\* together than the interval
C26_StampsAndStartsSpaced ==
    /\ Spaced(stamps)
    /\ \A t, u \in InFlight :
          t # u => \/ request_start[t] - request_start[u]
                        >= min_request_interval
                   \/ request_start[u] - request_start[t]
                        >= min_request_interval

\* C26 amended: any two passes through the rate gate record timestamps at
\* least the minimum interval apart, the later pass having the later
\* timestamp, and at most one thread is inside the gate at a time
C26_StampsSpaced ==
    /\ Spaced(stamps)
    /\ Cardinality({t \in HttpThreads : http_pc[t] = "sleep"}) <= 1
    /\ \A t \in HttpThreads : http_pc[t] = "sleep" => rate_limit_lock = t

C26_Witness ==
    /\ Len(stamps) >= 2
    /\ \E t \in HttpThreads : http_pc[t] = "sleep" /\ wake_time[t] > clock
    /\ \E t \in HttpThreads : http_pc[t] = "rate_limit"

SlotHolders == {t \in HttpThreads : http_pc[t] \in InSlot}

\* C27: at most 2 requests are in flight at a time whatever the number of
\* threads, and an attempt that has ended (returned, raised, or waiting to
\* retry) holds no slot: the free slots are those not held inside the with
C27_AtMostTwoInFlight ==
    /\ Cardinality(InFlight) <= max_concurrent_requests
    /\ request_semaphore >= 0
    /\ request_semaphore =
          max_concurrent_requests - Cardinality(SlotHolders)

C27_Witness ==
    /\ Cardinality(InFlight) = max_concurrent_requests
    /\ request_semaphore = 0
    /\ \E t \in HttpThreads : http_pc[t] = "attempt" /\ http_attempt[t] > 0

\* ------------------------------------------------------------------------
\* parse_regulation_file
\* ------------------------------------------------------------------------
\* s is k integers separated by dots
IsDotted(s, k) ==
    /\ s # <<>>
    /\ \A i \in 1..Len(s) : s[i] \in Digits \cup {"."}
    /\ s[1] # "." /\ s[Len(s)] # "."
    /\ \A i \in 1..(Len(s) - 1) : ~ (s[i] = "." /\ s[i + 1] = ".")
    /\ Cardinality({i \in 1..Len(s) : s[i] = "."}) = k - 1

\* line is k integers separated by dots, for some k of K, then whitespace,
\* then a title
HeaderForm(line, K) ==
    \E p \in 1..Len(line) : \E k \in K :
        /\ IsDotted(SubSeq(line, 1, p), k)
        /\ p + 1 <= Len(line) /\ line[p + 1] \in Whitespace
        /\ LStrip(SubSeq(line, p + 1, Len(line))) # <<>>

StrippedLine(i) == Strip(outline[i])

\* the indices of the header lines, in order
HeaderIdxs ==
    SelectSeq([i \in 1..Len(outline) |-> i],
              LAMBDA i : section_match(StrippedLine(i)).matched)

\* the non-blank lines strictly between line a and line b, stripped
LinesBetween(a, b) ==
    SelectSeq([i \in 1..(b - a - 1) |-> StrippedLine(a + i)],
              LAMBDA l : l # <<>>)

\* the entry that the j-th header line and the lines after it describe
EntryOfHeader(j) ==
    LET h    == HeaderIdxs[j]
        next == IF j < Len(HeaderIdxs) THEN HeaderIdxs[j + 1]
                                       ELSE Len(outline) + 1
        m    == section_match(StrippedLine(h))
    IN  [id |-> m.id, title |-> m.title,
         description |-> JoinLines(LinesBetween(h, next))]

OneEntryPerHeader ==
    /\ Len(parsed_sections) = Len(HeaderIdxs)
    /\ \A j \in 1..Len(HeaderIdxs) : parsed_sections[j] = EntryOfHeader(j)

DistinctHeaderIds ==
    \A i, j \in 1..Len(HeaderIdxs) :
        i # j => section_match(StrippedLine(HeaderIdxs[i])).id
                    # section_match(StrippedLine(HeaderIdxs[j])).id

\* C28 as stated: an outline with N header lines yields exactly N entries
\* in header order, each description being the lines strictly between its
\* header and the next; lines before the first header are discarded and an
\* outline with no header yields the empty mapping
C28_OneEntryPerHeader == parse_pc = "done" => OneEntryPerHeader

\* C28 amended: the same for an outline whose header lines have pairwise
\* distinct ids; in any outline the ids of the entries are the distinct
\* ids of the header lines
C28_OneEntryPerDistinctHeader ==
    parse_pc = "done" =>
       /\ DistinctHeaderIds => OneEntryPerHeader
       /\ {parsed_sections[j].id : j \in 1..Len(parsed_sections)}
             = {EntryOfHeader(j).id : j \in 1..Len(HeaderIdxs)}
       /\ \A i, j \in 1..Len(parsed_sections) :
             i # j => parsed_sections[i].id # parsed_sections[j].id

C28_Witness ==
    /\ parse_pc = "done"
    /\ Len(outline) = 3
    /\ ~ section_match(StrippedLine(1)).matched /\ StrippedLine(1) # <<>>
    /\ section_match(StrippedLine(2)).matched
    /\ ~ section_match(StrippedLine(3)).matched /\ StrippedLine(3) # <<>>
    /\ Len(parsed_sections) = 1
    /\ parsed_sections[1].description = StrippedLine(3)

\* the iteration of the for loop at a non-blank line began a new entry
StartsEntry ==
    /\ StrippedLine(line_idx) # <<>>
    /\ current_section_id' # None
    /\ current_description' = <<>>

Iteration == parse_pc = "loop" /\ line_idx' = line_idx + 1

\* C29 as stated: a line starts a new entry exactly when it is 2, 3 or 4
\* dot-separated integers followed by whitespace and a title
C29_TwoToFourIntegers ==
    [][Iteration =>
          (StartsEntry <=> HeaderForm(StrippedLine(line_idx), {2, 3, 4}))]_vars

\* C29 amended: a line starts a new entry exactly when it is 3 or 4
\* dot-separated integers followed by whitespace and a title
C29_ThreeOrFourIntegers ==
    [][Iteration =>
          (StartsEntry <=> HeaderForm(StrippedLine(line_idx), {3, 4}))]_vars

C29_Witness ==
    /\ parse_pc = "done"
    /\ \E i \in 1..Len(outline) : HeaderForm(StrippedLine(i), {2})
    /\ \E i \in 1..Len(outline) : HeaderForm(StrippedLine(i), {4})
    /\ \E i \in 1..Len(outline) : HeaderForm(StrippedLine(i), {5})
    /\ Len(parsed_sections) = 1

\* ------------------------------------------------------------------------
\* The exit status of the section writer
\* ------------------------------------------------------------------------
Exited == exit_status # NotExited

NoTextGenerated == node = "finished" /\ output_tex.length = 0

SingleExit ==
    cli_mode = "single" /\ (~ papers_exists \/ NoTextGenerated)
       => exit_status # 0

\* C30 as stated: in batch or all mode the exit status is non-zero if and
\* only if at least one section of the batch ended as failed; in single
\* section mode it is non-zero when the papers file is missing or no text
\* was generated
C30_NonZeroIffSectionFailed ==
    Exited =>
       /\ cli_mode = "batch" =>
             (exit_status # 0 <=> Failed(batch_results) # {})
       /\ SingleExit

\* C30 amended: in batch or all mode the exit status is non-zero if and
\* only if the papers file could not be opened or at least one section of
\* the batch ended as failed; single section mode as stated
C30_NonZeroIffFailedOrMissing ==
    Exited =>
       /\ cli_mode = "batch" =>
             (exit_status # 0 <=>
                 (~ papers_exists \/ Failed(batch_results) # {}))
       /\ SingleExit

C30_Witness ==
    /\ cli_mode = "batch"
    /\ exit_status = 1
    /\ papers_exists
    /\ \E s \in DOMAIN batch_results : batch_results[s].status = "failed"
    /\ \E s \in DOMAIN batch_results : batch_results[s].status = "success"

\* ------------------------------------------------------------------------
\* --generate-main
\* ------------------------------------------------------------------------
\* C31: in --generate-main mode with an existing papers file main.tex is
\* generated and the exit status is 0; the status is non-zero in that mode
\* only when the papers file is missing
C31_GenerateMainExitsZero ==
    cli_mode = "generate_main" /\ Exited =>
       /\ papers_exists => exit_status = 0 /\ main_tex.written
       /\ exit_status # 0 => ~ papers_exists

\* ------------------------------------------------------------------------
\* The default batch
\* ------------------------------------------------------------------------
ClaimedOrder ==
    << <<2,5,1>>, <<2,5,2>>, <<2,5,3>>, <<2,5,4>>, <<2,5,5>>, <<2,5,6>>,
       <<2,5,6,1>>, <<2,5,6,2>>, <<2,5,6,3>>, <<2,5,6,4>>, <<2,5,7>> >>

\* C40: for the default batch the generation order is 2.5.1, 2.5.2, 2.5.3,
\* 2.5.4, 2.5.5, 2.5.6, 2.5.6.1, 2.5.6.2, 2.5.6.3, 2.5.6.4, 2.5.7: the
\* sections are processed in this order, 2.5.7 last, and main.tex inputs
\* the fragments that exist in this same order
C40_DefaultOrder ==
    /\ sort_pc = "done" => result = ClaimedOrder
    /\ batch_idx > 0 =>
          /\ sorted_sections = ClaimedOrder
          /\ DOMAIN batch_results \subseteq
                {ClaimedOrder[i] : i \in 1..batch_idx}
          /\ {ClaimedOrder[i] : i \in 1..(batch_idx - 1)}
                \subseteq DOMAIN batch_results
    /\ main_tex.written =>
          /\ main_tex.sections =
                SelectSeq(ClaimedOrder, LAMBDA x : x \in tex_files)
          /\ tex_files = {x \in DOMAIN batch_results :
                             batch_results[x].status = "success"}

C40_Witness ==
    /\ main_tex.written
    /\ Len(main_tex.sections) = Len(ClaimedOrder) - 2
    /\ main_tex.sections[Len(main_tex.sections)] = <<2,5,7>>
    /\ <<2,5,1>> \notin tex_files
    /\ <<2,5,6,2>> \notin tex_files

\* ------------------------------------------------------------------------
\* The sort as a function of the set of ids
\* ------------------------------------------------------------------------
\* the smallest element of a non-empty set of ids in string order
Smallest(S) == CHOOSE x \in S : \A y \in S : y = x \/ StrLess(x, y)

\* the ids of S whose prerequisites in S are all in `emitted`
ReadyIn(S, emitted) ==
    {x \in S \ Range(emitted) :
        \A dep \in graph(x) : dep \in S => dep \in Range(emitted)}

\* the order that emits, while an id is ready, the smallest ready id: a
\* function of the set S alone
RECURSIVE OrderOfSet(_, _)
OrderOfSet(S, emitted) ==
    IF ReadyIn(S, emitted) = {} THEN emitted
    ELSE OrderOfSet(S, Append(emitted, Smallest(ReadyIn(S, emitted))))

\* C39: for a duplicate-free input over the declared table the result is a
\* function of the set of input ids, whatever their order in the list, and
\* the loop ends with every id emitted, so the cycle fallback is not taken
C39_OrderDependsOnSetOnly ==
    /\ sort_pc = "loop" /\ queue = <<>> => Len(result) = Len(sections)
    /\ sort_pc = "done" => result = OrderOfSet(Range(sections), <<>>)

C39_Witness ==
    /\ sort_pc = "done"
    /\ Len(sections) = 3
    /\ sections[3] \in graph(sections[2])
    /\ sections[2] \in graph(sections[1])
    /\ result = <<sections[3], sections[2], sections[1]>>

\* ------------------------------------------------------------------------
\* Retryable and fatal failures of the generation call
\* ------------------------------------------------------------------------
\* the failure is an openai RateLimitError, or carries a rate-limit marker
\* in its type name or message
RateLimitFailure(e) == e.kind \in {"RateLimitError", "message_429"}

\* a step in which the generation call was made and failed
GenerationCallFails ==
    /\ retry_site \in GenerationSites
    /\ calls' = calls + 1
    /\ retry_pc' \in {"sleep", "raised"}

HasSectionMarker(t) ==
    "\\section" \in t.contains \/ "\\subsection" \in t.contains

\* C33: a refinement pass whose call returns a text with a section or
\* subsection marker replaces the working text by it; a pass whose call
\* returns a text without such a marker, or raises, leaves the working text
\* unchanged; every pass leaves the quality report as it was and adds one to
\* revision_count
C33_RefinementFrame ==
    [][\A outcome \in GenerationOutcomes :
          RefinementNode(outcome) =>
             /\ revision_count' = revision_count + 1
             /\ quality_report' = quality_report
             /\ IF outcome.kind = "text" /\ HasSectionMarker(outcome.tex)
                THEN output_tex' = outcome.tex
                ELSE output_tex' = output_tex]_vars

C33_Witness ==
    /\ node = "validation"
    /\ Len(visited) >= 2
    /\ visited[Len(visited) - 1] = "refinement"
    /\ revision_count = 2
    /\ ~ HasSectionMarker(output_tex)
    /\ output_tex.length > 0
    /\ quality_report = validate_latex_quality(
                            output_tex, ExpectedCitations(cross_references))

\* C38: a section whose guidance could not be loaded is still written and
\* validated: with section_guidance "" the run goes from planning to writing,
\* the relevant-paper list and the related contents are empty, a run that
\* ended has been through validation, and the entry recorded for the
\* section is the one any ended run gets from its text
NodesOf(v) == {v[i] : i \in 1..Len(v)}
C38_PlanningFailureKeepsPipeline ==
    section_guidance = "" /\ node \in {"writing", "validation", "refinement",
                                       "END", "raised"}
    => /\ Len(visited) >= 2
       /\ visited[1] = "planning"
       /\ visited[2] = "writing"
       /\ cross_references = 0
       /\ related_sections_tex = {}
       /\ node = "END" => "validation" \in NodesOf(visited)
C38_Witness ==
    /\ node = "finished"
    /\ section_guidance = ""
    /\ Len(sorted_sections) >= 1
    /\ "validation" \in NodesOf(visited)
    /\ LET section_id == sorted_sections[batch_idx]
       IN  /\ section_id \in DOMAIN batch_results
           /\ batch_results[section_id].status = "success"
           /\ section_id \in tex_files

\* C37: the sleep after a 429 response begins with the slot still held and
\* the slot is given back only when that sleep is over, so a thread in that
\* sleep counts against the requests the others can have in flight; the
\* sleep after a raised request error begins with the slot given back and
\* gives nothing back when it ends
C37_BackoffAfter429HoldsSlot ==
    /\ [](Cardinality(InFlight)
            + Cardinality({t \in HttpThreads :
                              http_pc[t] = "backoff_in_slot"})
            <= max_concurrent_requests)
    /\ [][\A t \in HttpThreads :
            /\ http_pc[t] # "backoff_in_slot"
                  /\ http_pc'[t] = "backoff_in_slot"
               => request_semaphore' = request_semaphore
            /\ http_pc[t] = "backoff_in_slot"
                  /\ http_pc'[t] # "backoff_in_slot"
               => request_semaphore' = request_semaphore + 1
            /\ http_pc[t] # "backoff" /\ http_pc'[t] = "backoff"
               => request_semaphore' = request_semaphore + 1
            /\ http_pc[t] = "backoff" /\ http_pc'[t] # "backoff"
               => request_semaphore' = request_semaphore]_vars
C37_Witness ==
    \E t, u, v \in HttpThreads :
        /\ http_pc[t] = "backoff_in_slot"
        /\ http_pc[u] = "in_flight"
        /\ http_pc[v] = "backoff"
        /\ request_semaphore = 0

\* C36: search_papers raises nothing: a request that failed after its
\* retries and a response that could not be read both give the empty list,
\* and the tool then returns the same JSON text as for a search without
\* results, never an error text or an exception that could reach the
\* section's retry loop
SearchFailed ==
    \/ raised_error # NoError
    \/ search_caught # "none"
C36_SearchNeverPropagates ==
    /\ search_return.kind # "raise"
    /\ search_pc \in {"returned", "tool_returned"} /\ SearchFailed
       => search_return = PaperList(0)
    /\ search_pc = "tool_returned"
       => /\ tool_return.kind = "json"
          /\ SearchFailed => tool_return = [kind |-> "json", count |-> 0]
C36_Witness ==
    /\ search_pc = "tool_returned"
    /\ pmids > 0
    /\ retry_attempt = http_max_retries - 1
    /\ raised_error.kind \in {"status_429", "HTTPError", "RequestException"}
    /\ search_caught = "RequestException"
    /\ tool_return = [kind |-> "json", count |-> 0]

\* C34: the start delay of the task at 0-based position p is 0.5 s times
\* (p modulo the concurrency limit): in half seconds, a task sleeping
\* before its first attempt sleeps for (p mod max_concurrent)
C34_StartDelayIsPositionModLimit ==
    \A i \in Tasks :
        task_pc[i] = "start_delay" => delay[i] = (i - 1) % max_concurrent

\* C35: when every generation call returns or raises, the worker phase
\* eventually ends for good with every task of the fan-out done (each has
\* had its slot and left it), one result per section in outline order and
\* every slot given back
C35_FanOutCompletes ==
    <>[](/\ phase = "deduplication"
         /\ \A i \in 1..NumSections :
               /\ task_pc[i] = "done"
               /\ results[i][1] = section_list[i]
         /\ Len(results) = NumSections
         /\ Len(completed) = NumSections
         /\ semaphore = max_concurrent)
C35_Witness ==
    /\ phase = "deduplication"
    /\ Len(results) = NumSections
    /\ semaphore = max_concurrent
    /\ \E i, j \in 1..NumSections :
          /\ results[i][2] = <<>>
          /\ results[j][2] # <<>>
          /\ completed[1] = NumSections

====
